---- MODULE Spec2Model ----
(***************************************************************************)
(* Stream blocks of the SignalProcessing repository: the lifecycle         *)
(* (init / run / process / stop) of the ten block types, their ports,      *)
(* state slots and block mutex, and the numeric kernels they run.          *)
(*                                                                         *)
(* Reals (f64) are modelled as exact rationals <<n, d>> in lowest terms,   *)
(* d > 0; d = 0 stands for a non-finite f64 (<<0,0>> NaN, <<1,0>> +inf,    *)
(* <<-1,0>> -inf).  Rounding is not modelled.                              *)
(***************************************************************************)
EXTENDS Integers, Sequences, FiniteSets, TLC

(***************************************************************************)
(* Bounds of the model.                                                    *)
(***************************************************************************)
MaxBlockLen == 2
MaxFeed == 2

\* The capacity of the FIFO the scheduler wires to an input port.
QueueCap == 1

(***************************************************************************)
(* Numbers.                                                                *)
(***************************************************************************)
Abs(i) == IF i < 0 THEN -i ELSE i

Sign(i) == IF i < 0 THEN -1 ELSE IF i = 0 THEN 0 ELSE 1

RECURSIVE GCD(_, _)
GCD(a, b) == IF b = 0 THEN a ELSE GCD(b, a % b)

Norm(n, d) ==
    IF d = 0 THEN <<Sign(n), 0>>
    ELSE LET g == GCD(Abs(n), Abs(d))
             s == Sign(d)
         IN  <<(s * n) \div g, (s * d) \div g>>

R(i) == <<i, 1>>

RAdd(a, b) == Norm(a[1] * b[2] + b[1] * a[2], a[2] * b[2])

RNeg(a) == <<-a[1], a[2]>>

RSub(a, b) == RAdd(a, RNeg(b))

RMul(a, b) == Norm(a[1] * b[1], a[2] * b[2])

RDiv(a, b) == Norm(a[1] * b[2], a[2] * b[1])

RLess(a, b) == a[1] * b[2] < b[1] * a[2]

RECURSIVE RSum(_)
RSum(s) == IF s = <<>> THEN R(0) ELSE RAdd(Head(s), RSum(Tail(s)))

Zeros(n) == [i \in 1..n |-> R(0)]

Reverse(s) == [i \in 1..Len(s) |-> s[Len(s) + 1 - i]]

(***************************************************************************)
(* Matrices of the math library the blocks use: rows, cols and the         *)
(* entries as a sequence of rows.  An operation on operands of the wrong   *)
(* shape does not return (it panics); the callers below test the shapes    *)
(* with the ...Ok predicates before they use the result.                   *)
(***************************************************************************)
MZero(r, c) == [rows |-> r, cols |-> c, d |-> [i \in 1..r |-> [j \in 1..c |-> R(0)]]]

MIdentity(n) ==
    [rows |-> n, cols |-> n,
     d |-> [i \in 1..n |-> [j \in 1..n |-> IF i = j THEN R(1) ELSE R(0)]]]

MFromVec(rws) ==
    [rows |-> Len(rws),
     cols |-> IF rws = <<>> THEN 0 ELSE Len(rws[1]),
     d |-> rws]

MColumn(v) == MFromVec([i \in 1..Len(v) |-> <<v[i]>>])

MIsSquare(m) == m.rows = m.cols

MTranspose(m) ==
    [rows |-> m.cols, cols |-> m.rows,
     d |-> [i \in 1..m.cols |-> [j \in 1..m.rows |-> m.d[j][i]]]]

MMulOk(a, b) == a.cols = b.rows

MMul(a, b) ==
    [rows |-> a.rows, cols |-> b.cols,
     d |-> [i \in 1..a.rows |-> [j \in 1..b.cols |->
              RSum([k \in 1..a.cols |-> RMul(a.d[i][k], b.d[k][j])])]]]

MAddOk(a, b) == a.rows = b.rows /\ a.cols = b.cols

MAdd(a, b) ==
    [rows |-> a.rows, cols |-> a.cols,
     d |-> [i \in 1..a.rows |-> [j \in 1..a.cols |-> RAdd(a.d[i][j], b.d[i][j])]]]

MSub(a, b) ==
    [rows |-> a.rows, cols |-> a.cols,
     d |-> [i \in 1..a.rows |-> [j \in 1..a.cols |-> RSub(a.d[i][j], b.d[i][j])]]]

\* set(row, col, value) with zero-based row and col: an error outside the matrix.
MSetOk(m, r, c) == r >= 0 /\ r < m.rows /\ c >= 0 /\ c < m.cols

MSet(m, r, c, v) == [m EXCEPT !.d[r + 1][c + 1] = v]

\* to_vec().into_iter().map(|v| v[0]): the first column.
MFirstColumn(m) == [i \in 1..m.rows |-> m.d[i][1]]


(***************************************************************************)
(* lti/src/state_space.rs: the state-space engine shared by Ss, Tf, Zpk.   *)
(* A constructor or a step that panics is reported as [panic |-> TRUE].    *)
(***************************************************************************)
StateSpace_new(A, B, C, D, x0) == [A |-> A, B |-> B, C |-> C, D |-> D, x |-> x0]

\* The engine every Ss, Tf and Zpk block is constructed with.
DefaultModel == StateSpace_new(MZero(1, 1), MZero(1, 1), MZero(1, 1), MZero(1, 1), MZero(1, 1))

cauchy(a, b) ==
    [k \in 1..(Len(a) + Len(b) - 1) |->
        RSum([i \in 1..Len(a) |->
                IF k - i + 1 >= 1 /\ k - i + 1 <= Len(b)
                THEN RMul(a[i], b[k - i + 1]) ELSE R(0)])]

\* from_tf, den non-empty.  n = den.len() - 1.  C.set(n-1, 0, 1.0).unwrap()
\* addresses row n-1 of the 1 x n matrix C: it fails unless n = 1 (n = 0
\* underflows).  B.set(k-1, 0, ..) for k in 1..num.len() fails once k-1 >= n.
from_tf(num, den, x0) ==
    LET n == Len(den) - 1
        C0 == MZero(1, n)
    IN  IF n = 0 \/ ~MSetOk(C0, n - 1, 0) \/ Len(num) - 1 > n
        THEN [panic |-> TRUE]
        ELSE [panic |-> FALSE,
              ss |-> [A |-> [rows |-> n, cols |-> n,
                             d |-> [i \in 1..n |-> [j \in 1..n |->
                                     IF i = n THEN RNeg(RDiv(den[j + 1], den[1]))
                                     ELSE IF j = i + 1 THEN R(1) ELSE R(0)]]],
                      B |-> [rows |-> n, cols |-> 1,
                             d |-> [i \in 1..n |->
                                     <<IF i + 1 <= Len(num)
                                       THEN RDiv(num[i + 1], den[1]) ELSE R(0)>>]],
                      C |-> MSet(C0, n - 1, 0, R(1)),
                      D |-> IF Len(num) = Len(den)
                            THEN MSet(MZero(1, 1), 0, 0, RDiv(num[1], den[1]))
                            ELSE MZero(1, 1),
                      x |-> MColumn(x0)]]

RECURSIVE Roots2Poly(_)
\* The product of the factors (x - r), lowest power first, by repeated cauchy.
Roots2Poly(roots) ==
    IF roots = <<>> THEN <<R(1)>>
    ELSE cauchy(Roots2Poly(SubSeq(roots, 1, Len(roots) - 1)),
                <<RNeg(roots[Len(roots)]), R(1)>>)

RECURSIVE PadFront(_, _)
PadFront(num, n) == IF Len(num) < n THEN PadFront(<<R(0)>> \o num, n) ELSE num

\* A from_zpk that drops the gain: what from_zpk must not be.
from_zpk_unscaled(zeros, poles, gain, x0) ==
    from_tf(PadFront(Reverse(Roots2Poly(zeros)), Len(poles) + 1),
            Reverse(Roots2Poly(poles)), x0)

from_zpk(zeros, poles, gain, x0) ==
    LET den == Reverse(Roots2Poly(poles))
        num == Reverse([i \in 1..(Len(zeros) + 1) |-> RMul(Roots2Poly(zeros)[i], gain)])
    IN  from_tf(PadFront(num, Len(den)), den, x0)

\* update: self.x is assigned before y is computed, and y reads the new x.
update(ss, u) ==
    IF ~(MMulOk(ss.A, ss.x) /\ MMulOk(ss.B, u) /\ MAddOk(MMul(ss.A, ss.x), MMul(ss.B, u)))
    THEN [panic |-> TRUE, ss |-> ss]
    ELSE LET x1 == MAdd(MMul(ss.A, ss.x), MMul(ss.B, u))
             s1 == [ss EXCEPT !.x = x1]
         IN  IF ~(MMulOk(ss.C, x1) /\ MMulOk(ss.D, u)
                  /\ MAddOk(MMul(ss.C, x1), MMul(ss.D, u)))
             THEN [panic |-> TRUE, ss |-> s1]
             ELSE [panic |-> FALSE, ss |-> s1,
                   y |-> MAdd(MMul(ss.C, x1), MMul(ss.D, u))]

get_input_size(ss) == ss.B.cols

(***************************************************************************)
(* filters/src/fir.rs and iir.rs: one iteration of the sample loop of      *)
(* process, for the zero-based sample index k.  Indexing a Vec out of      *)
(* range, subtracting below zero in usize and remove(0) on an empty Vec    *)
(* panic.                                                                  *)
(***************************************************************************)
InRange(v, i) == i >= 0 /\ i < Len(v)

Fir_sample(coefficient, order, input_signal, input_memory, k) ==
    LET taps == 1..(order - 1)
        bad == \/ ~InRange(coefficient, 0)
               \/ \E index \in taps :
                     \/ ~InRange(coefficient, index)
                     \/ order - k < 0
                     \/ ~InRange(input_memory, order - k)
               \/ input_memory = <<>>
    IN  IF bad THEN [panic |-> TRUE]
        ELSE [panic |-> FALSE,
              value |-> RAdd(RMul(coefficient[1], input_signal[k + 1]),
                             RSum([i \in taps |->
                                     RMul(coefficient[i + 1], input_memory[order - k + 1])])),
              mem |-> Append(Tail(input_memory), input_signal[k + 1])]

Iir_sample(a_coefficient, b_coefficient, order, input_signal, input_memory, output_memory, k) ==
    LET taps == 1..(order - 1)
        bad == \/ ~InRange(b_coefficient, 0)
               \/ \E index \in taps :
                     \/ ~InRange(b_coefficient, index)
                     \/ ~InRange(a_coefficient, index)
                     \/ order - k < 0
                     \/ ~InRange(input_memory, order - k)
                     \/ ~InRange(output_memory, order - k)
               \/ output_memory = <<>>
               \/ input_memory = <<>>
        value == RAdd(RMul(b_coefficient[1], input_signal[k + 1]),
                      RSum([i \in taps |->
                              RAdd(RMul(b_coefficient[i + 1], input_memory[order - k + 1]),
                                   RMul(a_coefficient[i + 1], output_memory[order - k + 1]))]))
    IN  IF bad THEN [panic |-> TRUE]
        ELSE [panic |-> FALSE,
              value |-> value,
              in_mem |-> Append(Tail(input_memory), input_signal[k + 1]),
              out_mem |-> Append(Tail(output_memory), value)]

(***************************************************************************)
(* filters/src/median_filter.rs: the map over the input block inside       *)
(* process.  The window is local to one call.                              *)
(***************************************************************************)
RECURSIVE Insert(_, _)
Insert(x, s) ==
    IF s = <<>> THEN <<x>>
    ELSE IF RLess(x, Head(s)) THEN <<x>> \o s
    ELSE <<Head(s)>> \o Insert(x, Tail(s))

RECURSIVE Sort(_)
Sort(s) == IF s = <<>> THEN <<>> ELSE Insert(Head(s), Sort(Tail(s)))

\* The upper middle of every window, odd or even: what Median_window must not be.
upper_middle(input_window) ==
    IF input_window = <<>> THEN [panic |-> TRUE]
    ELSE [panic |-> FALSE, median |-> Sort(input_window)[Len(input_window) \div 2 + 1]]

\* The median of one window; mid - 1 underflows on the empty window.
Median_window(input_window) ==
    LET sorted_window == Sort(input_window)
        len == Len(sorted_window)
        mid == len \div 2
    IN  IF len % 2 = 1 THEN [panic |-> FALSE, median |-> sorted_window[mid + 1]]
        ELSE IF mid - 1 < 0 THEN [panic |-> TRUE]
        ELSE [panic |-> FALSE,
              median |-> RDiv(RAdd(sorted_window[mid], sorted_window[mid + 1]), R(2))]

RECURSIVE Median_map(_, _, _, _)
\* Samples i.. of the block, with the window left by the samples before i.
Median_map(input_signal, order, input_window, i) ==
    IF i > Len(input_signal) THEN [panic |-> FALSE, out |-> <<>>]
    ELSE LET pushed == Append(input_window, input_signal[i])
             window == IF Len(pushed) > order THEN Tail(pushed) ELSE pushed
             m == Median_window(window)
         IN  IF m.panic THEN [panic |-> TRUE]
             ELSE LET rest == Median_map(input_signal, order, window, i + 1)
                  IN  IF rest.panic THEN [panic |-> TRUE]
                      ELSE [panic |-> FALSE, out |-> <<m.median>> \o rest.out]

MedianFilter_kernel(order, input_signal) == Median_map(input_signal, order, <<>>, 1)

(***************************************************************************)
(* filters/src/moving_average.rs: the two loops inside process.            *)
(***************************************************************************)
RECURSIVE MovingAverage_loop(_, _, _, _, _)
\* The main loop from the zero-based index k on, with the running sum and count.
MovingAverage_loop(input_signal, order, value_sum, count, k) ==
    LET N == Len(input_signal)
        half_order == order \div 2
        out == RDiv(value_sum, R(count))
        step(bad, sum1, count1) ==
            IF bad THEN [panic |-> TRUE]
            ELSE LET rest == MovingAverage_loop(input_signal, order, sum1, count1, k + 1)
                 IN  IF rest.panic THEN [panic |-> TRUE]
                     ELSE [panic |-> FALSE, out |-> <<out>> \o rest.out]
    IN  IF k >= N THEN [panic |-> FALSE, out |-> <<>>]
        ELSE IF k < order
             THEN step(~InRange(input_signal, k + half_order),
                       RAdd(value_sum, input_signal[k + half_order + 1]), count + 1)
        ELSE IF N - half_order - 1 < 0 THEN [panic |-> TRUE]
        ELSE IF k > N - half_order - 1
             THEN step(k - half_order - 1 < 0 \/ count - 1 < 0,
                       RSub(value_sum, input_signal[k - half_order]), count - 1)
        ELSE step(~InRange(input_signal, k + half_order) \/ k - half_order - 1 < 0,
                  RAdd(value_sum,
                       RSub(input_signal[k + half_order + 1], input_signal[k - half_order])),
                  count)

MovingAverage_kernel(order, input_signal) ==
    LET half_order == order \div 2
    IN  IF half_order > Len(input_signal) THEN [panic |-> TRUE]
        ELSE MovingAverage_loop(input_signal, order,
                                RSum(SubSeq(input_signal, 1, half_order)), half_order, 0)

(***************************************************************************)
(* observer/src/alpha_beta_gamma.rs: the locked region of process.         *)
(* delta_time is the time elapsed since last_update, in seconds.           *)
(***************************************************************************)
\* A tracker that corrects the old position without predicting it first: what
\* AlphaBetaGamma_kernel must not be.
tracker_without_prediction(alpha, beta, gamma, state, init, delta_time, input_signal) ==
    IF init
    THEN LET error == RSub(input_signal, state[1])
         IN  <<RAdd(state[1], RMul(alpha, error)),
               RAdd(state[2], RMul(beta, error)),
               RAdd(state[3], RMul(gamma, error))>>
    ELSE [state EXCEPT ![1] = input_signal]

AlphaBetaGamma_kernel(alpha, beta, gamma, state, init, delta_time, input_signal) ==
    IF init
    THEN LET p == RAdd(RAdd(state[1], RMul(state[2], delta_time)),
                       RMul(RMul(RMul(<<1, 2>>, delta_time), delta_time), state[3]))
             error == RSub(input_signal, p)
         IN  <<RAdd(p, RMul(alpha, error)),
               RAdd(state[2], RMul(beta, error)),
               RAdd(state[3], RMul(gamma, error))>>
    ELSE [state EXCEPT ![1] = input_signal]

(***************************************************************************)
(* observer/src/kalman_filter.rs: the locked region of process.  The       *)
(* received vector is used both as the control u and as the measurement.   *)
(* The state slot enters as a 1 x n row (it is not transposed).            *)
(***************************************************************************)
MDet2(m) == RSub(RMul(m.d[1][1], m.d[2][2]), RMul(m.d[1][2], m.d[2][1]))

\* inverse() of the math library, for the 1 x 1 and 2 x 2 matrices of this model.
MInverseOk(m) ==
    /\ MIsSquare(m)
    /\ m.rows \in {1, 2}
    /\ IF m.rows = 1 THEN m.d[1][1] # R(0) ELSE MDet2(m) # R(0)

MInverse(m) ==
    IF m.rows = 1 THEN MFromVec(<<<<RDiv(R(1), m.d[1][1])>>>>)
    ELSE LET det == MDet2(m)
         IN  MFromVec(<<
                 <<RDiv(m.d[2][2], det), RDiv(RNeg(m.d[1][2]), det)>>,
                 <<RDiv(RNeg(m.d[2][1]), det), RDiv(m.d[1][1], det)>> >>)

\* a * b + c, and whether its shapes agree.
MulAddOk(a, b, c) == MMulOk(a, b) /\ MAddOk(MMul(a, b), c)

KalmanFilter_kernel(A, B, H, Q, R0, P, state, input) ==
    LET u == MTranspose(MFromVec(<<input>>))
        xs == MFromVec(<<state>>)
        Ht == MTranspose(H)
    IN  IF ~(MMulOk(A, xs) /\ MMulOk(B, u) /\ MAddOk(MMul(A, xs), MMul(B, u)))
        THEN [panic |-> TRUE]
        ELSE LET x_prior == MAdd(MMul(A, xs), MMul(B, u))
        IN  IF ~(MMulOk(A, P) /\ MulAddOk(MMul(A, P), MTranspose(A), Q))
            THEN [panic |-> TRUE]
            ELSE LET P_prior == MAdd(MMul(MMul(A, P), MTranspose(A)), Q)
            IN  IF ~(MMulOk(H, x_prior) /\ MAddOk(u, MMul(H, x_prior)))
                THEN [panic |-> TRUE]
                ELSE LET y == MSub(u, MMul(H, x_prior))
                IN  IF ~(MMulOk(H, P_prior) /\ MulAddOk(MMul(H, P_prior), Ht, R0))
                    THEN [panic |-> TRUE]
                    ELSE LET S == MAdd(MMul(MMul(H, P_prior), Ht), R0)
                    IN  IF ~(MMulOk(P_prior, Ht) /\ MInverseOk(S)
                             /\ MMulOk(MMul(P_prior, Ht), S))
                        THEN [panic |-> TRUE]
                        ELSE LET K == MMul(MMul(P_prior, Ht), MInverse(S))
                        IN  IF ~(MulAddOk(K, y, x_prior) /\ MMulOk(K, H)
                                 /\ MAddOk(MIdentity(K.rows), MMul(K, H))
                                 /\ MMulOk(MMul(K, H), P_prior)
                                 /\ x_prior.rows > 0)
                            THEN [panic |-> TRUE]
                            ELSE [panic |-> FALSE,
                                  P |-> MMul(MSub(MIdentity(K.rows), MMul(K, H)), P_prior),
                                  state |-> MAdd(x_prior, MMul(K, y)).d[1]]

(***************************************************************************)
(* transform/src/fft.rs: FftCore.  Complex numbers are [re, im].  The      *)
(* twiddle factors cos/sin(2 pi i / size) are exact where the angle is a   *)
(* multiple of a quarter turn, i.e. for the plan sizes 1, 2 and 4.         *)
(***************************************************************************)
FftSizes == {1, 2, 4}

Cx(re, im) == [re |-> re, im |-> im]

CAdd(a, b) == Cx(RAdd(a.re, b.re), RAdd(a.im, b.im))

CSub(a, b) == Cx(RSub(a.re, b.re), RSub(a.im, b.im))

CMul(a, b) ==
    Cx(RSub(RMul(a.re, b.re), RMul(a.im, b.im)), RAdd(RMul(a.re, b.im), RMul(a.im, b.re)))

RECURSIVE CSum(_)
CSum(s) == IF s = <<>> THEN Cx(R(0), R(0)) ELSE CAdd(Head(s), CSum(Tail(s)))

\* Complex::new(angle.cos(), angle.sin()) for angle = +-2 pi i / size.
Weight(inverse, size, i) ==
    LET q == ((4 * i) \div size) % 4
        c == CASE q = 0 -> 1 [] q = 1 -> 0 [] q = 2 -> -1 [] q = 3 -> 0
        sn == CASE q = 0 -> 0 [] q = 1 -> 1 [] q = 2 -> 0 [] q = 3 -> -1
    IN  Cx(R(c), R(IF inverse THEN sn ELSE -sn))

RECURSIVE SmallestFactor(_, _)
SmallestFactor(n, d) == IF n % d = 0 THEN d ELSE SmallestFactor(n, d + 1)

RECURSIVE factorize(_)
\* The prime factors of n with multiplicity, smallest first; none for n = 1.
factorize(n) ==
    IF n <= 1 THEN <<>>
    ELSE LET p == SmallestFactor(n, 2) IN <<p>> \o factorize(n \div p)

FftCore_new(inverse, size) ==
    [size |-> size,
     weights |-> [i \in 1..size |-> Weight(inverse, size, i - 1)],
     factorization |-> factorize(size)]

RECURSIVE fft_process(_, _, _, _, _, _)
\* start and step are passed down and never read: every chunk is the
\* transform of the same input.
fft_process(core, input, size, index_factor, start, step) ==
    IF size = 1 THEN [panic |-> FALSE, out |-> input]
    ELSE IF size = 2
    THEN IF Len(input) < 2 THEN [panic |-> TRUE]
         ELSE [panic |-> FALSE,
               out |-> <<CAdd(input[1], input[2]), CSub(input[1], input[2])>>]
    ELSE IF ~InRange(core.factorization, index_factor) THEN [panic |-> TRUE]
    ELSE LET chunk_number == core.factorization[index_factor + 1]
             chunk_size == size \div chunk_number
             chunks == [i \in 0..(chunk_number - 1) |->
                          fft_process(core, input, chunk_size, index_factor + 1,
                                      start + i * step, step * chunk_number)]
         IN  IF \E i \in 0..(chunk_number - 1) :
                    \/ chunks[i].panic
                    \/ Len(chunks[i].out) < chunk_size
                    \/ Len(core.weights) < chunk_size
             THEN [panic |-> TRUE]
             ELSE [panic |-> FALSE,
                   out |-> [k1 \in 1..size |->
                              LET index_sel == (k1 - 1) % chunk_size
                              IN  CSum([i1 \in 1..chunk_number |->
                                          CMul(chunks[i1 - 1].out[index_sel + 1],
                                               core.weights[index_sel + 1])])]]

PadZero(input, size) ==
    [i \in 1..(IF Len(input) < size THEN size ELSE Len(input)) |->
        IF i <= Len(input) THEN input[i] ELSE Cx(R(0), R(0))]

fft_complex(core, input) == fft_process(core, PadZero(input, core.size), core.size, 0, 0, 1)

fft_real(core, input) ==
    fft_complex(core, [i \in 1..Len(input) |-> Cx(input[i], R(0))])

(***************************************************************************)
(* The blocks.  One block instance is modelled; its type is `kind`.        *)
(***************************************************************************)
Kinds ==
    {"Fir", "Iir", "MedianFilter", "MovingAverage", "Tf", "Zpk", "Ss",
     "AlphaBetaGamma", "KalmanFilter", "Fft"}

Lti == {"Tf", "Zpk", "Ss"}

V(s) == [i \in 1..Len(s) |-> R(s[i])]

\* The statics each constructor declares, with their default values.
DefaultStatics(k) ==
    CASE k = "Fir" -> [order |-> 0, coefficient |-> <<>>]
      [] k = "Iir" -> [order |-> 0, a_coefficient |-> <<>>, b_coefficient |-> <<>>]
      [] k = "MedianFilter" -> [order |-> 0]
      [] k = "MovingAverage" -> [order |-> 0]
      [] k = "Tf" -> [numerator |-> V(<<1>>), denominator |-> V(<<1>>), x0 |-> V(<<0>>)]
      [] k = "Zpk" -> [zeros |-> V(<<0>>), poles |-> V(<<0>>), gain |-> R(1), x0 |-> V(<<0>>)]
      [] k = "Ss" -> [A |-> MZero(1, 1), B |-> MZero(1, 1), C |-> MZero(1, 1),
                      D |-> MZero(1, 1), x0 |-> MZero(1, 1)]
      [] k = "AlphaBetaGamma" -> [alpha |-> R(0), beta |-> R(0), gamma |-> R(0)]
      [] k = "KalmanFilter" ->
            [A |-> MIdentity(1), B |-> MIdentity(1), H |-> MIdentity(1), Q |-> MIdentity(1),
             R |-> MIdentity(1), P0 |-> MIdentity(1), initial_state |-> <<>>]
      [] k = "Fft" -> [fft_size |-> 1024, inverse |-> FALSE, complex_input |-> FALSE]

\* The values a host assigns to the statics in this model: the defaults
\* (where the plan they ask for is within FftSizes), working settings, and
\* settings init has to reject.
Configs(k) ==
    CASE k = "Fir" ->
            {DefaultStatics(k), [order |-> 1, coefficient |-> V(<<2, 3>>)]}
      [] k = "Iir" ->
            {DefaultStatics(k),
             [order |-> 1, a_coefficient |-> V(<<1, 1>>), b_coefficient |-> V(<<2>>)]}
      [] k = "MedianFilter" -> {DefaultStatics(k), [order |-> 2]}
      [] k = "MovingAverage" -> {DefaultStatics(k), [order |-> 2]}
      [] k = "Tf" ->
            {DefaultStatics(k),
             [numerator |-> V(<<1>>), denominator |-> V(<<1, -1>>), x0 |-> V(<<0>>)]}
      [] k = "Zpk" ->
            {DefaultStatics(k),
             [zeros |-> <<>>, poles |-> V(<<2>>), gain |-> R(3), x0 |-> V(<<0>>)]}
      [] k = "Ss" ->
            {DefaultStatics(k),
             [A |-> MIdentity(1), B |-> MIdentity(1), C |-> MIdentity(1),
              D |-> MZero(1, 1), x0 |-> MZero(1, 1)]}
      [] k = "AlphaBetaGamma" ->
            {DefaultStatics(k), [alpha |-> R(1), beta |-> R(0), gamma |-> R(0)]}
      [] k = "KalmanFilter" ->
            {DefaultStatics(k),
             [A |-> MIdentity(1), B |-> MZero(1, 1), H |-> MIdentity(1), Q |-> MIdentity(1),
              R |-> MZero(1, 1), P0 |-> MZero(1, 1), initial_state |-> V(<<0>>)]}
      [] k = "Fft" ->
            {[fft_size |-> 2, inverse |-> FALSE, complex_input |-> FALSE],
             [fft_size |-> 4, inverse |-> TRUE, complex_input |-> TRUE]}

\* The state slots each constructor declares, with their default values.
\* last_update is a time in seconds counted from the construction.
DefaultState(k) ==
    CASE k = "Fir" -> [inputs_memory |-> <<>>]
      [] k = "Iir" -> [inputs_memory |-> <<>>, outputs_memory |-> <<>>]
      [] k = "AlphaBetaGamma" -> [state |-> Zeros(3), last_update |-> R(0), init |-> FALSE]
      [] k = "KalmanFilter" -> [state |-> <<>>, P |-> MIdentity(1)]
      [] OTHER -> [none |-> TRUE]

\* The input port process receives from.
InputPort(k, st) ==
    IF k = "Fft" THEN (IF st.complex_input THEN "complex_signal" ELSE "real_signal")
    ELSE "input"

InPorts(k) == IF k = "Fft" THEN {"real_signal", "complex_signal"} ELSE {"input"}

\* The values the upstream of a port sends in this model.
PortValues(k, port) ==
    IF k = "AlphaBetaGamma" THEN {R(5), R(7)}
    ELSE IF port = "complex_signal"
    THEN {[i \in 1..L |-> Cx(R(i), R(i - 1))] : L \in 1..MaxBlockLen}
    ELSE {[i \in 1..L |-> R(i)] : L \in 1..MaxBlockLen}

\* The time that may pass between two updates of the tracker, in seconds.
DeltaTimes == {R(1), R(2)}

(***************************************************************************)
(* init of each block: the cross-static check, and the slots, engine or    *)
(* plan it then writes.                                                    *)
(***************************************************************************)
\* A test that lets every coefficient vector through: what Fir_init_valid must not be.
any_coefficient(st) == TRUE

Fir_init_valid(st) == Len(st.coefficient) = st.order + 1

Iir_init_valid(st) ==
    ~(Len(st.a_coefficient) # st.order + 1 \/ Len(st.b_coefficient) # st.order)

Tf_init_valid(st) ==
    /\ ~(Len(st.denominator) = 0 \/ st.denominator[1] = R(0))
    /\ Len(st.numerator) # 0

Zpk_init_valid(st) == ~(Len(st.zeros) > Len(st.poles))

Ss_init_valid(st) ==
    /\ MIsSquare(st.A)
    /\ st.A.rows = st.B.rows
    /\ st.A.cols = st.C.cols
    /\ st.B.cols = st.D.cols
    /\ st.C.rows = st.D.rows
    /\ ~(st.x0.rows # st.A.rows \/ st.x0.cols # 1)

\* A test that lets every shape through: what KalmanFilter_init_valid must not be.
any_shape(st) == TRUE

KalmanFilter_init_valid(st) ==
    /\ MIsSquare(st.A)
    /\ st.B.rows = st.A.rows
    /\ st.H.cols = st.A.rows
    /\ ~(st.Q.rows # st.A.rows \/ ~MIsSquare(st.Q))
    /\ ~(st.R.rows # st.H.rows \/ ~MIsSquare(st.R))
    /\ ~(st.P0.rows # st.A.rows \/ ~MIsSquare(st.P0))
    /\ Len(st.initial_state) = st.A.rows

init_valid(k, st) ==
    CASE k = "Fir" -> Fir_init_valid(st)
      [] k = "Iir" -> Iir_init_valid(st)
      [] k = "Tf" -> Tf_init_valid(st)
      [] k = "Zpk" -> Zpk_init_valid(st)
      [] k = "Ss" -> Ss_init_valid(st)
      [] k = "KalmanFilter" -> KalmanFilter_init_valid(st)
      [] OTHER -> TRUE

\* What init writes once the checks have passed: the state slots, the
\* engine (Ss, Tf, Zpk) and the plan (Fft).  MedianFilter, MovingAverage
\* and AlphaBetaGamma write nothing.
Tf_init_model(st) == from_tf(PadFront(st.numerator, Len(st.denominator)), st.denominator, st.x0)

Zpk_init_model(st) == from_zpk(st.zeros, st.poles, st.gain, st.x0)

init_write(k, st, slots, mdl, core) ==
    CASE k = "Fir" ->
            [panic |-> FALSE, state |-> [slots EXCEPT !.inputs_memory = Zeros(st.order)],
             model |-> mdl, fft_core |-> core]
      [] k = "Iir" ->
            [panic |-> FALSE,
             state |-> [slots EXCEPT !.inputs_memory = Zeros(st.order),
                                     !.outputs_memory = Zeros(st.order)],
             model |-> mdl, fft_core |-> core]
      [] k = "KalmanFilter" ->
            [panic |-> FALSE,
             state |-> [slots EXCEPT !.state = st.initial_state, !.P = st.P0],
             model |-> mdl, fft_core |-> core]
      [] k = "Ss" ->
            [panic |-> FALSE, state |-> slots,
             model |-> StateSpace_new(st.A, st.B, st.C, st.D, st.x0), fft_core |-> core]
      [] k = "Tf" ->
            IF Tf_init_model(st).panic
            THEN [panic |-> TRUE, state |-> slots, model |-> mdl, fft_core |-> core]
            ELSE [panic |-> FALSE, state |-> slots, model |-> Tf_init_model(st).ss,
                  fft_core |-> core]
      [] k = "Zpk" ->
            IF Zpk_init_model(st).panic
            THEN [panic |-> TRUE, state |-> slots, model |-> mdl, fft_core |-> core]
            ELSE [panic |-> FALSE, state |-> slots, model |-> Zpk_init_model(st).ss,
                  fft_core |-> core]
      [] k = "Fft" ->
            [panic |-> FALSE, state |-> slots, model |-> mdl,
             fft_core |-> [some |-> TRUE, core |-> FftCore_new(st.inverse, st.fft_size)]]
      [] OTHER -> [panic |-> FALSE, state |-> slots, model |-> mdl, fft_core |-> core]

\* Whether init ends with set_state(Initial): Tf and Zpk return Ok without it.
init_sets_Initial(k) == k \notin {"Tf", "Zpk"}

\* Whether init holds the block mutex from its first line to its return.
init_locks(k) == k = "Zpk"

\* Whether run tests is_initialized() after its test of the lifecycle state.
run_checks_initialized(k) == k \notin {"Ss", "Tf", "Zpk", "Fft"}

(***************************************************************************)
(* The state.  Two threads use the block: "host" drives it (set statics,   *)
(* init, run, process, stop) and "ctl" is a controller that calls stop     *)
(* and init from outside while the host thread is inside run.              *)
(***************************************************************************)
VARIABLES
    kind,          \* the block type
    statics,       \* the statics slots
    initialized,   \* is_initialized(): the statics have been assigned
    proc_state,    \* the lifecycle state cell
    lock,          \* the block mutex: "free" or the thread holding it
    poisoned,      \* a thread panicked while holding the block mutex
    state,         \* the state slots
    model,         \* the state-space engine (Ss, Tf, Zpk)
    fft_core,      \* the FFT plan (Fft): Option<FftCore>
    inputs,        \* per input port, the values waiting to be received
    in_closed,     \* the upstream of the input ports is gone
    output_port,   \* the values sent on the output port, oldest first
    out_closed,    \* the downstream of the output port is gone
    pc,            \* per thread, where it is inside its operation
    loc,           \* per thread, the local variables of the operation
    ret,           \* the return of a public operation in the step just taken, if any
    n_recv,        \* how many values process has received
    out_src        \* per value sent, the number of the received value it was computed from

vars ==
    <<kind, statics, initialized, proc_state, lock, poisoned, state, model, fft_core,
      inputs, in_closed, output_port, out_closed, pc, loc, ret, n_recv, out_src>>

\* The block itself, without the threads' bookkeeping.
block_vars ==
    <<kind, statics, initialized, proc_state, lock, poisoned, state, model, fft_core,
      inputs, in_closed, output_port, out_closed>>

Threads == {"host", "ctl"}

\* The locals of an operation; ps0 is the lifecycle state the operation was called in.
NoLoc ==
    [st |-> <<>>, slots |-> <<>>, input |-> <<>>, out |-> <<>>, k |-> 0,
     from_run |-> FALSE, src |-> 0, ps0 |-> "none"]

NoCore == [some |-> FALSE]

NoRet == [t |-> "none", op |-> "none", res |-> "none", ps0 |-> "none"]

Init ==
    /\ kind \in Kinds
    /\ statics = DefaultStatics(kind)
    /\ initialized = FALSE
    /\ proc_state = "Null"
    /\ lock = "free"
    /\ poisoned = FALSE
    /\ state = DefaultState(kind)
    /\ model = DefaultModel
    /\ fft_core = NoCore
    /\ inputs = [p \in InPorts(kind) |-> <<>>]
    /\ in_closed = FALSE
    /\ output_port = <<>>
    /\ out_closed = FALSE
    /\ pc = [t \in Threads |-> "idle"]
    /\ loc = [t \in Threads |-> NoLoc]
    /\ ret = NoRet
    /\ n_recv = 0
    /\ out_src = <<>>

(***************************************************************************)
(* The block base the blocks derive: the lifecycle cell and the ports.     *)
(***************************************************************************)
check_state(s) == proc_state = s

is_initialized == initialized

\* The state cell after set_state(s).
set_state(s) == s

\* A stop that leaves the state cell alone: what stop must not be.
keeps_state(ps) == ps

\* The state cell after stop().
Block_stop(ps) == set_state("Stopped")

\* Operation o of thread t, called in lifecycle state ps0, returns res: its
\* guards are dropped, and a guard dropped by a panic poisons the mutex.
Return(t, o, ps0, res) ==
    /\ pc' = [pc EXCEPT ![t] = "idle"]
    /\ ret' = [t |-> t, op |-> o, res |-> res, ps0 |-> ps0]
    /\ loc' = [loc EXCEPT ![t] = NoLoc]
    /\ lock' = IF lock = t THEN "free" ELSE lock
    /\ poisoned' = (poisoned \/ (res = "Panic" /\ lock = t))

\* The host assigns the statics, once, before it uses the block.
SetStatics(cfg) ==
    /\ pc["host"] = "idle"
    /\ ~initialized
    /\ statics' = cfg
    /\ initialized' = TRUE
    /\ ret' = NoRet
    /\ UNCHANGED <<kind, proc_state, lock, poisoned, state, model, fft_core, inputs,
                   in_closed, output_port, out_closed, pc, loc, n_recv, out_src>>

(***************************************************************************)
(* init                                                                    *)
(***************************************************************************)
\* A test that turns down no state at all: what init_rejects must not be.
rejects_nothing(ps) == FALSE

\* The first test of every run.
run_rejects(ps) == ps = "Stopped"

\* The first test of every init.
init_rejects(ps) == ps = "Running"

\* The tests of init, in the order of the code.
InitCheckBody(t, ps0) ==
    /\ IF init_rejects(proc_state)
       THEN Return(t, "init", ps0, "InvalidStateTransition")
       ELSE IF ~is_initialized \/ ~init_valid(kind, statics)
       THEN Return(t, "init", ps0, "InvalidStatics")
       ELSE /\ pc' = [pc EXCEPT ![t] = "i_write"]
            /\ loc' = [loc EXCEPT ![t] = [NoLoc EXCEPT !.st = statics, !.ps0 = ps0]]
            /\ ret' = NoRet
            /\ UNCHANGED <<lock, poisoned>>
    /\ UNCHANGED <<kind, statics, initialized, proc_state, state, model, fft_core, inputs,
                   in_closed, output_port, out_closed, n_recv, out_src>>

\* The host thread is inside run: the only time the controller acts.
InsideRun == pc["host"] \in {"r_set", "r_loop"} \/ loc["host"].from_run

\* Zpk takes the block mutex first; lock().unwrap() panics on a poisoned mutex.
InitCall(t) ==
    /\ pc[t] = "idle"
    /\ t = "ctl" => InsideRun
    /\ IF init_locks(kind)
       THEN /\ lock = "free"
            /\ IF poisoned
               THEN Return(t, "init", proc_state, "Panic")
               ELSE /\ lock' = t
                    /\ pc' = [pc EXCEPT ![t] = "i_check"]
                    /\ loc' = [loc EXCEPT ![t] = [NoLoc EXCEPT !.ps0 = proc_state]]
                    /\ ret' = NoRet
                    /\ UNCHANGED poisoned
            /\ UNCHANGED <<kind, statics, initialized, proc_state, state, model, fft_core,
                           inputs, in_closed, output_port, out_closed, n_recv, out_src>>
       ELSE InitCheckBody(t, proc_state)

InitCheck(t) ==
    /\ pc[t] = "i_check"
    /\ InitCheckBody(t, loc[t].ps0)

\* The slots, engine or plan are written; Tf and Zpk return here.
InitWrite(t) ==
    /\ pc[t] = "i_write"
    /\ LET w == init_write(kind, loc[t].st, state, model, fft_core)
       IN  /\ state' = w.state
           /\ model' = w.model
           /\ fft_core' = w.fft_core
           /\ IF w.panic THEN Return(t, "init", loc[t].ps0, "Panic")
              ELSE IF init_sets_Initial(kind)
              THEN /\ pc' = [pc EXCEPT ![t] = "i_set"]
                   /\ ret' = NoRet
                   /\ UNCHANGED <<loc, lock, poisoned>>
              ELSE Return(t, "init", loc[t].ps0, "Ok")
    /\ UNCHANGED <<kind, statics, initialized, proc_state, inputs, in_closed, output_port,
                   out_closed, n_recv, out_src>>

InitSet(t) ==
    /\ pc[t] = "i_set"
    /\ proc_state' = set_state("Initial")
    /\ Return(t, "init", loc[t].ps0, "Ok")
    /\ UNCHANGED <<kind, statics, initialized, state, model, fft_core, inputs, in_closed,
                   output_port, out_closed, n_recv, out_src>>

(***************************************************************************)
(* stop                                                                    *)
(***************************************************************************)
Stop(t) ==
    /\ pc[t] = "idle"
    /\ t = "ctl" => InsideRun
    /\ proc_state' = Block_stop(proc_state)
    /\ Return(t, "stop", proc_state, "Ok")
    /\ UNCHANGED <<kind, statics, initialized, state, model, fft_core, inputs, in_closed,
                   output_port, out_closed, n_recv, out_src>>

(***************************************************************************)
(* process.  The steps of one call, in the order of the code:              *)
(*   entry    the statics are read, and the slots read before recv         *)
(*   p_recv   recv_input, and what follows it up to the mutex              *)
(*   p_lock   lock.lock().unwrap()                                         *)
(*   p_kernel the numeric kernel, up to the end of the guard's scope       *)
(*   p_write  the set_state_value calls after the guard was dropped        *)
(*   p_send   send_output and the return                                   *)
(***************************************************************************)
\* Blocks that read their state slots before recv_input.
reads_slots_first(k) == k \in {"Iir", "AlphaBetaGamma", "KalmanFilter"}

\* Blocks whose kernel runs once per sample, each time under a new guard.
locks_per_sample(k) == k \in {"Fir", "Iir"}

\* Blocks whose process takes the block mutex at all.
process_locks(k) == k # "Fft"

\* Blocks that write state slots back after the guard was dropped.
writes_back(k) == k \in {"Fir", "Iir", "AlphaBetaGamma", "KalmanFilter"}

\* Blocks whose process drops the result of send_output.
ignores_send_result(k) == k = "AlphaBetaGamma"

\* A test that lets every vector through: what lti_input_mismatch must not be.
accepts_any_input(input, mdl) == FALSE

\* Ss, Tf, Zpk: the test of the received vector against the engine.
lti_input_mismatch(input, mdl) ==
    LET u == MColumn(input)
    IN  u.rows # get_input_size(mdl) \/ u.cols # 1

\* process returns res to its caller: to run's loop, which goes on after Ok
\* and returns any error, or to the thread that called process itself.
ProcessReturn(t, res) ==
    IF loc[t].from_run /\ res = "Ok"
    THEN /\ pc' = [pc EXCEPT ![t] = "r_loop"]
         /\ loc' = [loc EXCEPT ![t] = [NoLoc EXCEPT !.ps0 = loc[t].ps0]]
         /\ lock' = IF lock = t THEN "free" ELSE lock
         /\ ret' = NoRet
         /\ UNCHANGED poisoned
    ELSE Return(t, IF loc[t].from_run THEN "run" ELSE "process", loc[t].ps0, res)

\* The entry of process, from run's loop or from a direct call.
EnterProcess(t, from_run, ps0) ==
    /\ pc' = [pc EXCEPT ![t] = "p_recv"]
    /\ ret' = NoRet
    /\ loc' = [loc EXCEPT ![t] =
                 [NoLoc EXCEPT !.st = statics,
                               !.slots = IF reads_slots_first(kind) THEN state ELSE <<>>,
                               !.from_run = from_run,
                               !.ps0 = ps0]]

ProcessCall(t) ==
    /\ pc[t] = "idle"
    /\ t = "host"
    /\ EnterProcess(t, FALSE, proc_state)
    /\ UNCHANGED <<block_vars, n_recv, out_src>>

ProcRecv(t) ==
    /\ pc[t] = "p_recv"
    /\ LET port == InputPort(kind, loc[t].st)
       IN  /\ inputs[port] # <<>> \/ in_closed
           /\ IF inputs[port] = <<>>
              THEN /\ ProcessReturn(t, "ChannelClosed")
                   /\ UNCHANGED <<inputs, n_recv, proc_state>>
              ELSE LET input == Head(inputs[port])
                   IN  /\ inputs' = [inputs EXCEPT ![port] = Tail(@)]
                       /\ n_recv' = n_recv + 1
                       /\ IF kind \in Lti /\ lti_input_mismatch(input, model)
                          THEN /\ proc_state' = Block_stop(proc_state)
                               /\ ProcessReturn(t, "InvalidInput")
                          ELSE /\ pc' = [pc EXCEPT ![t] =
                                    IF ~process_locks(kind) THEN "p_kernel"
                                    ELSE IF locks_per_sample(kind) /\ input = <<>>
                                    THEN "p_write" ELSE "p_lock"]
                               /\ loc' = [loc EXCEPT ![t].input = input,
                                                     ![t].src = n_recv + 1,
                                                     ![t].slots =
                                                        IF kind = "Fir" THEN state ELSE @]
                               /\ ret' = NoRet
                               /\ UNCHANGED <<proc_state, lock, poisoned>>
    /\ UNCHANGED <<kind, statics, initialized, state, model, fft_core, in_closed,
                   output_port, out_closed, out_src>>

ProcLock(t) ==
    /\ pc[t] = "p_lock"
    /\ lock = "free"
    /\ IF poisoned
       THEN ProcessReturn(t, "Panic")
       ELSE /\ lock' = t
            /\ pc' = [pc EXCEPT ![t] = "p_kernel"]
            /\ ret' = NoRet
            /\ UNCHANGED <<loc, poisoned>>
    /\ UNCHANGED <<kind, statics, initialized, proc_state, state, model, fft_core, inputs,
                   in_closed, output_port, out_closed, n_recv, out_src>>

\* A guard that outlives its block: what guard_scope_end must not be.
guard_kept(l, t) == l

\* The block mutex l after thread t has left the scope of its guard.
guard_scope_end(l, t) == IF l = t THEN "free" ELSE l

\* What the kernel of block k computes from the locals l of the call, the
\* engine and the plan: the output, the new locals and the new engine.
Kernel(k, l, mdl, core, delta_time) ==
    CASE k = "Fir" ->
            LET r == Fir_sample(l.st.coefficient, l.st.order, l.input,
                                l.slots.inputs_memory, l.k)
            IN  IF r.panic THEN [panic |-> TRUE, model |-> mdl]
                ELSE [panic |-> FALSE, model |-> mdl,
                      out |-> Append(l.out, r.value),
                      slots |-> [l.slots EXCEPT !.inputs_memory = r.mem]]
      [] k = "Iir" ->
            LET r == Iir_sample(l.st.a_coefficient, l.st.b_coefficient, l.st.order, l.input,
                                l.slots.inputs_memory, l.slots.outputs_memory, l.k)
            IN  IF r.panic THEN [panic |-> TRUE, model |-> mdl]
                ELSE [panic |-> FALSE, model |-> mdl,
                      out |-> Append(l.out, r.value),
                      slots |-> [l.slots EXCEPT !.inputs_memory = r.in_mem,
                                               !.outputs_memory = r.out_mem]]
      [] k = "MedianFilter" ->
            LET r == MedianFilter_kernel(l.st.order, l.input)
            IN  IF r.panic THEN [panic |-> TRUE, model |-> mdl]
                ELSE [panic |-> FALSE, model |-> mdl, out |-> r.out, slots |-> l.slots]
      [] k = "MovingAverage" ->
            LET r == MovingAverage_kernel(l.st.order, l.input)
            IN  IF r.panic THEN [panic |-> TRUE, model |-> mdl]
                ELSE [panic |-> FALSE, model |-> mdl, out |-> r.out, slots |-> l.slots]
      [] k = "AlphaBetaGamma" ->
            LET s1 == AlphaBetaGamma_kernel(l.st.alpha, l.st.beta, l.st.gamma, l.slots.state,
                                            l.slots.init, delta_time, l.input)
            IN  [panic |-> FALSE, model |-> mdl, out |-> s1[1],
                 slots |-> [l.slots EXCEPT !.state = s1,
                                          !.last_update = RAdd(@, delta_time)]]
      [] k = "KalmanFilter" ->
            LET r == KalmanFilter_kernel(l.st.A, l.st.B, l.st.H, l.st.Q, l.st.R,
                                         l.slots.P, l.slots.state, l.input)
            IN  IF r.panic THEN [panic |-> TRUE, model |-> mdl]
                ELSE [panic |-> FALSE, model |-> mdl, out |-> r.state,
                      slots |-> [l.slots EXCEPT !.state = r.state, !.P = r.P]]
      [] k \in Lti ->
            LET r == update(mdl, MColumn(l.input))
            IN  IF r.panic THEN [panic |-> TRUE, model |-> r.ss]
                ELSE [panic |-> FALSE, model |-> r.ss, out |-> MFirstColumn(r.y),
                      slots |-> l.slots]
      [] k = "Fft" ->
            IF ~core.some THEN [panic |-> TRUE, model |-> mdl]
            ELSE LET r == IF l.st.complex_input THEN fft_complex(core.core, l.input)
                          ELSE fft_real(core.core, l.input)
                 IN  IF r.panic THEN [panic |-> TRUE, model |-> mdl]
                     ELSE [panic |-> FALSE, model |-> mdl, out |-> r.out, slots |-> l.slots]

ProcKernel(t) ==
    /\ pc[t] = "p_kernel"
    /\ \E delta_time \in (IF kind = "AlphaBetaGamma" THEN DeltaTimes ELSE {R(0)}) :
          LET r == Kernel(kind, loc[t], model, fft_core, delta_time)
          IN  /\ model' = r.model
              /\ IF r.panic
                 THEN ProcessReturn(t, "Panic")
                 ELSE /\ lock' = guard_scope_end(lock, t)
                      /\ loc' = [loc EXCEPT ![t].out = r.out,
                                            ![t].slots = r.slots,
                                            ![t].k = @ + 1]
                      /\ pc' = [pc EXCEPT ![t] =
                                  IF locks_per_sample(kind)
                                  THEN (IF loc[t].k + 1 < Len(loc[t].input)
                                        THEN "p_lock" ELSE "p_write")
                                  ELSE IF writes_back(kind) THEN "p_write" ELSE "p_send"]
                      /\ ret' = NoRet
                      /\ UNCHANGED poisoned
    /\ UNCHANGED <<kind, statics, initialized, proc_state, state, fft_core, inputs,
                   in_closed, output_port, out_closed, n_recv, out_src>>

\* The slots process writes back, from its locals.
write_back(k, slots, l) ==
    CASE k = "AlphaBetaGamma" ->
            [slots EXCEPT !.last_update = l.slots.last_update, !.init = TRUE,
                          !.state = l.slots.state]
      [] k = "KalmanFilter" -> [slots EXCEPT !.state = l.slots.state, !.P = l.slots.P]
      [] k = "Fir" -> [slots EXCEPT !.inputs_memory = l.slots.inputs_memory]
      [] k = "Iir" -> [slots EXCEPT !.inputs_memory = l.slots.inputs_memory,
                                    !.outputs_memory = l.slots.outputs_memory]
      [] OTHER -> slots

ProcWrite(t) ==
    /\ pc[t] = "p_write"
    /\ state' = write_back(kind, state, loc[t])
    /\ pc' = [pc EXCEPT ![t] = "p_send"]
    /\ ret' = NoRet
    /\ UNCHANGED <<kind, statics, initialized, proc_state, lock, poisoned, model, fft_core,
                   inputs, in_closed, output_port, out_closed, loc, n_recv, out_src>>

\* What process returns when send_output has returned sent ("Ok" or "ChannelClosed").
send_result(k, sent) == IF ignores_send_result(k) THEN "Ok" ELSE sent

ProcSend(t) ==
    /\ pc[t] = "p_send"
    /\ IF out_closed
       THEN /\ ProcessReturn(t, send_result(kind, "ChannelClosed"))
            /\ UNCHANGED <<output_port, out_src>>
       ELSE /\ output_port' = Append(output_port, loc[t].out)
            /\ out_src' = Append(out_src, loc[t].src)
            /\ ProcessReturn(t, send_result(kind, "Ok"))
    /\ UNCHANGED <<kind, statics, initialized, proc_state, state, model, fft_core, inputs,
                   in_closed, out_closed, n_recv>>

(***************************************************************************)
(* run                                                                     *)
(***************************************************************************)
RunCall(t) ==
    /\ pc[t] = "idle"
    /\ t = "host"
    /\ IF run_rejects(proc_state)
       THEN Return(t, "run", proc_state, "InvalidStateTransition")
       ELSE IF run_checks_initialized(kind) /\ ~is_initialized
       THEN Return(t, "run", proc_state, "InvalidStatics")
       ELSE /\ pc' = [pc EXCEPT ![t] = "r_set"]
            /\ loc' = [loc EXCEPT ![t] = [NoLoc EXCEPT !.ps0 = proc_state]]
            /\ ret' = NoRet
            /\ UNCHANGED <<lock, poisoned>>
    /\ UNCHANGED <<kind, statics, initialized, proc_state, state, model, fft_core, inputs,
                   in_closed, output_port, out_closed, n_recv, out_src>>

RunSet(t) ==
    /\ pc[t] = "r_set"
    /\ proc_state' = set_state("Running")
    /\ pc' = [pc EXCEPT ![t] = "r_loop"]
    /\ ret' = NoRet
    /\ UNCHANGED <<kind, statics, initialized, lock, poisoned, state, model, fft_core,
                   inputs, in_closed, output_port, out_closed, loc, n_recv, out_src>>

\* One test of the loop condition: run returns Ok, or process is entered.
RunLoop(t) ==
    /\ pc[t] = "r_loop"
    /\ IF check_state("Stopped")
       THEN Return(t, "run", loc[t].ps0, "Ok")
       ELSE /\ EnterProcess(t, TRUE, loc[t].ps0)
            /\ UNCHANGED <<lock, poisoned>>
    /\ UNCHANGED <<kind, statics, initialized, proc_state, state, model, fft_core, inputs,
                   in_closed, output_port, out_closed, n_recv, out_src>>

(***************************************************************************)
(* The ports' other ends.                                                  *)
(***************************************************************************)
RECURSIVE SumLen(_, _)
SumLen(f, S) ==
    IF S = {} THEN 0
    ELSE LET p == CHOOSE q \in S : TRUE IN Len(f[p]) + SumLen(f, S \ {p})

\* The values sent by the upstream and not yet received.
Pending == SumLen(inputs, DOMAIN inputs)

Feed(port, v) ==
    /\ ~in_closed
    /\ n_recv + Pending < MaxFeed
    /\ Len(inputs[port]) < QueueCap
    /\ inputs' = [inputs EXCEPT ![port] = Append(@, v)]
    /\ ret' = NoRet
    /\ UNCHANGED <<kind, statics, initialized, proc_state, lock, poisoned, state, model,
                   fft_core, in_closed, output_port, out_closed, pc, loc, n_recv, out_src>>

CloseInput ==
    /\ ~in_closed
    /\ in_closed' = TRUE
    /\ ret' = NoRet
    /\ UNCHANGED <<kind, statics, initialized, proc_state, lock, poisoned, state, model,
                   fft_core, inputs, output_port, out_closed, pc, loc, n_recv, out_src>>

CloseOutput ==
    /\ ~out_closed
    /\ out_closed' = TRUE
    /\ ret' = NoRet
    /\ UNCHANGED <<kind, statics, initialized, proc_state, lock, poisoned, state, model,
                   fft_core, inputs, in_closed, output_port, pc, loc, n_recv, out_src>>

(***************************************************************************)
(* The specification.                                                      *)
(***************************************************************************)
Next ==
    \/ \E cfg \in Configs(kind) : SetStatics(cfg)
    \/ \E t \in Threads : InitCall(t)
    \/ \E t \in Threads : InitCheck(t)
    \/ \E t \in Threads : InitWrite(t)
    \/ \E t \in Threads : InitSet(t)
    \/ \E t \in Threads : Stop(t)
    \/ \E t \in Threads : ProcessCall(t)
    \/ \E t \in Threads : ProcRecv(t)
    \/ \E t \in Threads : ProcLock(t)
    \/ \E t \in Threads : ProcKernel(t)
    \/ \E t \in Threads : ProcWrite(t)
    \/ \E t \in Threads : ProcSend(t)
    \/ \E t \in Threads : RunCall(t)
    \/ \E t \in Threads : RunSet(t)
    \/ \E t \in Threads : RunLoop(t)
    \/ \E port \in InPorts(kind) : \E v \in PortValues(kind, port) : Feed(port, v)
    \/ CloseInput
    \/ CloseOutput

Spec == Init /\ [][Next]_vars

(***************************************************************************)
(* The lifecycle and concurrency properties.                               *)
(***************************************************************************)
\* The errors a public operation returns, but for InvalidInput.
OtherErrors == {"InvalidStateTransition", "InvalidStatics", "ChannelClosed"}

\* The step in which the init called by t tests the lifecycle state.
InitTest(t) ==
    \/ pc[t] = "idle" /\ ~init_locks(kind) /\ InitCall(t)
    \/ InitCheck(t)

\* C1: for every block type, an init that finds the lifecycle state Running
\* returns InvalidStateTransition and changes nothing: the state stays
\* Running, and no state slot, engine or FFT plan is modified.
C1_InitWhileRunning ==
    [][\A t \in Threads :
          (InitTest(t) /\ proc_state = "Running")
              => /\ ret'.t = t /\ ret'.op = "init"
                 /\ ret'.res = "InvalidStateTransition"
                 /\ pc'[t] = "idle"
                 /\ proc_state' = "Running"
                 /\ UNCHANGED <<statics, initialized, state, model, fft_core,
                                inputs, output_port>>]_vars

\* C1, its case: the controller's init is turned down while the host thread
\* waits for input inside run.
C1_Witness ==
    /\ ret.t = "ctl" /\ ret.op = "init" /\ ret.res = "InvalidStateTransition"
    /\ proc_state = "Running"
    /\ pc["host"] = "p_recv" /\ loc["host"].from_run

\* C2: whenever init returns success, the lifecycle state is Initial
\* immediately afterwards and is_initialized() is true.
C2_InitOkIsInitial ==
    (ret.op = "init" /\ ret.res = "Ok") => (proc_state = "Initial" /\ is_initialized)

\* C3: run is accepted only from Initial: no thread is inside run, at its
\* transition to Running, in its loop or in a process step of the loop,
\* unless run was called in state Initial.
C3_RunOnlyFromInitial ==
    \A t \in Threads :
        (pc[t] \in {"r_set", "r_loop"} \/ loc[t].from_run) => loc[t].ps0 = "Initial"

\* C4: stop returns success and leaves the lifecycle state Stopped whatever
\* the state was, and a stop of a stopped block changes nothing of the block.
C4_StopAlways ==
    [][\A t \in Threads :
          (pc[t] = "idle" /\ Stop(t))
              => /\ ret'.t = t /\ ret'.op = "stop" /\ ret'.res = "Ok"
                 /\ proc_state' = "Stopped"
                 /\ (proc_state = "Stopped" => UNCHANGED block_vars)]_vars

\* C4, its case: a stop of a block that was stopped already has returned.
C4_Witness ==
    /\ ret.op = "stop" /\ ret.res = "Ok" /\ ret.ps0 = "Stopped"
    /\ proc_state = "Stopped"

\* C5: an operation that fails with an error other than InvalidInput leaves
\* the lifecycle state as it was when the operation was called.  For run,
\* the one operation that sets Running: a run called in Initial that fails
\* with such an error, ChannelClosed of its process included, does not leave
\* the block Running.
C5_FailureKeepsState ==
    (ret.op = "run" /\ ret.res \in OtherErrors /\ ret.ps0 = "Initial")
        => proc_state # "Running"

\* The step in which the process of t receives a vector whose length is not
\* the input size of the engine.
RecvMismatch(t) ==
    /\ kind \in Lti
    /\ pc[t] = "p_recv"
    /\ inputs["input"] # <<>>
    /\ Len(Head(inputs["input"])) # get_input_size(model)
    /\ ProcRecv(t)

\* C6: in Ss, Tf and Zpk a process that receives a vector of the wrong
\* length sets the state Stopped and returns InvalidInput, the engine is not
\* advanced and nothing is sent; a surrounding run returns that error.
C6_InvalidInputStops ==
    [][\A t \in Threads :
          RecvMismatch(t)
              => /\ proc_state' = "Stopped"
                 /\ ret'.t = t /\ ret'.res = "InvalidInput"
                 /\ ret'.op = (IF loc[t].from_run THEN "run" ELSE "process")
                 /\ pc'[t] = "idle"
                 /\ UNCHANGED <<model, state, output_port, out_src>>]_vars

\* C6, its case: run has returned InvalidInput from an initialized engine.
C6_Witness ==
    /\ kind \in Lti
    /\ ret.op = "run" /\ ret.res = "InvalidInput" /\ ret.ps0 = "Initial"
    /\ proc_state = "Stopped"
    /\ output_port = <<>>

\* C7: a send on a closed output port makes process return ChannelClosed,
\* to its caller or through run: no block swallows a failed send.
C7_SendFailureReturned ==
    [][\A t \in Threads :
          (pc[t] = "p_send" /\ out_closed /\ ProcSend(t))
              => (ret'.t = t /\ ret'.res = "ChannelClosed")]_vars

\* C8: a stop issued by another thread once run has been called (here in
\* state Initial) is not overwritten by run's own transition to Running.
C8_StopNotOverwritten ==
    [][\A t \in Threads :
          (pc[t] = "r_set" /\ loc[t].ps0 = "Initial" /\ RunSet(t))
              => proc_state # "Stopped"]_vars

\* C9: a process that ends in success, returning to its caller or to the
\* loop of run, has received one value and has sent one value computed from it.
C9_OneInOneOut ==
    [][\A t \in Threads :
          (pc[t] = "p_send" /\ ProcSend(t)
             /\ (pc'[t] = "r_loop" \/ (ret'.t = t /\ ret'.res = "Ok")))
              => /\ loc[t].src = n_recv
                 /\ output_port' = Append(output_port, loc[t].out)
                 /\ out_src' = Append(out_src, loc[t].src)]_vars

\* C10: in the process of every block the kernel and the write-back of the
\* state slots execute while the block mutex is held by the thread.
C10_KernelUnderLock ==
    \A t \in Threads : pc[t] \in {"p_kernel", "p_write"} => lock = t

\* Thread u is inside run.
InRun(u) == pc[u] \in {"r_set", "r_loop"} \/ loc[u].from_run

\* C12: init's test of the lifecycle state and its writes are not separated
\* by another thread's transition: init resets no state slot, engine or plan
\* and does not set Initial once the block has been moved to Running (by a
\* run that was called in state Initial).
C12_InitAtomic ==
    [][\A t \in Threads :
          (/\ \/ pc[t] = "i_write" /\ InitWrite(t)
              \/ pc[t] = "i_set" /\ InitSet(t)
           /\ \A u \in Threads : InRun(u) => loc[u].ps0 = "Initial")
              => proc_state # "Running"]_vars

\* C13: outside the scope of its guard, and so after process has returned
\* with success or with an error, to its caller or to the loop of run, a
\* thread does not hold the block mutex.
C13_LockReleased ==
    \A t \in Threads :
        pc[t] \in {"idle", "r_set", "r_loop", "p_recv", "p_lock", "p_write", "p_send"}
            => lock # t

\* C13, its case: a process whose kernel ran under the guard has returned
\* the ChannelClosed of its send, and the mutex is free.
C13_Witness ==
    /\ ret.t = "host" /\ ret.op = "process" /\ ret.res = "ChannelClosed"
    /\ n_recv > 0
    /\ process_locks(kind)
    /\ lock = "free" /\ ~poisoned

(***************************************************************************)
(* Statics rewritten while the block is in use.  process reads its statics *)
(* with one get_statics per static, none of them under the block mutex;    *)
(* a controller assigns a whole configuration while it holds the mutex.    *)
(* (In Spec nothing writes the statics once the block is in use, and the   *)
(* reads of process are one step there.)                                   *)
(***************************************************************************)
\* The statics process reads, in the order of its get_statics calls.
StaticsRead(k) ==
    CASE k = "Fir" -> <<"coefficient", "order">>
      [] k = "Iir" -> <<"a_coefficient", "b_coefficient", "order">>
      [] k = "MedianFilter" -> <<"order">>
      [] k = "MovingAverage" -> <<"order">>
      [] k = "AlphaBetaGamma" -> <<"alpha", "beta", "gamma">>
      [] k = "KalmanFilter" -> <<"A", "B", "H", "Q", "R">>
      [] k = "Fft" -> <<"fft_size", "complex_input">>
      [] OTHER -> <<>>

\* The blocks whose process reads more than one static.
StaticsKinds == {k \in Kinds : Len(StaticsRead(k)) > 1}

\* The configurations the host and the controller assign in SpecStatics.
Rewrites(k) ==
    CASE k = "Fir" ->
            {[order |-> 1, coefficient |-> V(<<2, 3>>)],
             [order |-> 2, coefficient |-> V(<<1, 1, 1>>)]}
      [] k = "Iir" ->
            {[order |-> 1, a_coefficient |-> V(<<1, 1>>), b_coefficient |-> V(<<2>>)],
             [order |-> 2, a_coefficient |-> V(<<1, 0, 0>>), b_coefficient |-> V(<<1, 1>>)]}
      [] k = "AlphaBetaGamma" ->
            {[alpha |-> R(1), beta |-> R(0), gamma |-> R(0)],
             [alpha |-> R(0), beta |-> R(1), gamma |-> R(1)]}
      [] k = "KalmanFilter" ->
            {[A |-> MIdentity(1), B |-> MZero(1, 1), H |-> MIdentity(1), Q |-> MIdentity(1),
              R |-> MZero(1, 1), P0 |-> MZero(1, 1), initial_state |-> V(<<0>>)],
             [A |-> MIdentity(2), B |-> MZero(2, 2), H |-> MIdentity(2), Q |-> MZero(2, 2),
              R |-> MIdentity(2), P0 |-> MIdentity(2), initial_state |-> V(<<0, 0>>)]}
      [] k = "Fft" ->
            {[fft_size |-> 2, inverse |-> FALSE, complex_input |-> FALSE],
             [fft_size |-> 4, inverse |-> TRUE, complex_input |-> TRUE]}
      [] OTHER -> Configs(k)

\* The entry of a process called by the host: nothing is read yet but the
\* slots (nothing writes the slots meanwhile in SpecStatics).
ProcessEntry(t) ==
    /\ pc[t] = "idle"
    /\ t = "host"
    /\ pc' = [pc EXCEPT ![t] = "p_read"]
    /\ ret' = NoRet
    /\ loc' = [loc EXCEPT ![t] =
                 [NoLoc EXCEPT !.slots = IF reads_slots_first(kind) THEN state ELSE <<>>,
                               !.ps0 = proc_state]]
    /\ UNCHANGED <<block_vars, n_recv, out_src>>

\* One get_statics of process: the next static is copied into the locals.
ProcRead(t) ==
    /\ pc[t] = "p_read"
    /\ LET n == Cardinality(DOMAIN loc[t].st)
           field == StaticsRead(kind)[n + 1]
       IN  /\ loc' = [loc EXCEPT ![t].st = @ @@ (field :> statics[field])]
           /\ pc' = [pc EXCEPT ![t] =
                       IF n + 1 = Len(StaticsRead(kind)) THEN "p_recv" ELSE "p_read"]
    /\ ret' = NoRet
    /\ UNCHANGED <<block_vars, n_recv, out_src>>

\* The controller assigns a configuration while it holds the block mutex.
CtlSetStatics(cfg) ==
    /\ pc["ctl"] = "idle"
    /\ lock = "free" /\ ~poisoned
    /\ cfg # statics
    /\ statics' = cfg
    /\ initialized' = TRUE
    /\ ret' = NoRet
    /\ UNCHANGED <<kind, proc_state, lock, poisoned, state, model, fft_core, inputs,
                   in_closed, output_port, out_closed, pc, loc, n_recv, out_src>>

InitStatics == Init /\ kind \in StaticsKinds

NextStatics ==
    \/ \E cfg \in Rewrites(kind) : SetStatics(cfg)
    \/ \E cfg \in Rewrites(kind) : CtlSetStatics(cfg)
    \/ InitCall("host")
    \/ InitWrite("host")
    \/ InitSet("host")
    \/ ProcessEntry("host")
    \/ ProcRead("host")
    \/ ProcRecv("host")
    \/ ProcLock("host")
    \/ ProcKernel("host")
    \/ ProcWrite("host")
    \/ ProcSend("host")
    \/ \E port \in InPorts(kind) : \E v \in PortValues(kind, port) : Feed(port, v)

SpecStatics == InitStatics /\ [][NextStatics]_vars

\* C11: a statics write made under the block mutex is serialized against
\* process: once a process of an initialized block has read its statics, the
\* values it computes with all belong to one of the configurations that
\* were assigned.
C11_StaticsOneConfiguration ==
    \A t \in Threads :
        (proc_state = "Initial"
           /\ pc[t] \in {"p_recv", "p_lock", "p_kernel", "p_write", "p_send"})
            => \E cfg \in Rewrites(kind) :
                  \A field \in DOMAIN loc[t].st : loc[t].st[field] = cfg[field]

(***************************************************************************)
(* The filters driven by one host thread: statics of every order up to     *)
(* MaxOrder with coefficient vectors that fit the order or do not, input   *)
(* blocks up to five samples, init, process, stop, other statics and init  *)
(* again.                                                                  *)
(***************************************************************************)
MaxOrder == 3

FilterKinds == {"Fir", "Iir", "MedianFilter", "MovingAverage"}

\* The statics the host assigns to a filter: every order with every
\* coefficient vector, of the length the order asks for or not.
FilterConfigs(k) ==
    LET FirCoefficients == {<<>>, V(<<2>>), V(<<2, 3>>), V(<<1, 2, 3>>), V(<<1, 1, 1, 1>>)}
        IirA == {V(<<1>>), V(<<1, 1>>), V(<<1, 0>>), V(<<1, 0, 0>>)}
        IirB == {<<>>, V(<<2>>), V(<<2, 3>>)}
    IN  CASE k = "Fir" ->
                {[order |-> o, coefficient |-> c] : o \in 0..MaxOrder, c \in FirCoefficients}
          [] k = "Iir" ->
                {[order |-> o, a_coefficient |-> a, b_coefficient |-> b] :
                    o \in 0..(MaxOrder - 1), a \in IirA, b \in IirB}
          [] OTHER -> {[order |-> o] : o \in 0..MaxOrder}

\* The blocks the upstream sends to a filter.
FilterInputs ==
    {V(<<1, 0>>), V(<<3, 1, 2>>), V(<<1, 1, 1, 1, 1>>), V(<<1, 100, 1, 100, 1>>),
     V(<<1, 2, 3, 4, 5>>)}

InitFilters == Init /\ kind \in FilterKinds

\* The host assigns other statics to a block it has stopped.
Reconfigure(cfg) ==
    /\ pc["host"] = "idle"
    /\ proc_state = "Stopped"
    /\ CtlSetStatics(cfg)

NextFilters ==
    \/ \E cfg \in FilterConfigs(kind) : SetStatics(cfg)
    \/ \E cfg \in FilterConfigs(kind) : Reconfigure(cfg)
    \/ InitCall("host")
    \/ InitWrite("host")
    \/ InitSet("host")
    \/ Stop("host")
    \/ ProcessCall("host")
    \/ ProcRecv("host")
    \/ ProcLock("host")
    \/ ProcKernel("host")
    \/ ProcWrite("host")
    \/ ProcSend("host")
    \/ \E v \in FilterInputs : Feed("input", v)

SpecFilters == InitFilters /\ [][NextFilters]_vars

\* The history slots of a Fir or an Iir.
History(k, slots) ==
    IF k = "Iir" THEN {slots.inputs_memory, slots.outputs_memory} ELSE {slots.inputs_memory}

Convolution(c, x, k) ==
    RSum([i \in 1..Len(c) |-> IF k - (i - 1) >= 1 THEN RMul(c[i], x[k - (i - 1)]) ELSE R(0)])

\* C15: after a successful Fir.init the outputs of process equal the
\* reference convolution y[k] = sum of c[i]*x[k-i] for i in 0..order; stated
\* for the first block received since the init: every sample of it is
\* computed (no step of the kernel fails) and equals the convolution.
C15_FirConvolution ==
    [][(/\ kind = "Fir" /\ loc["host"].ps0 = "Initial" /\ n_recv = 1
        /\ pc["host"] = "p_kernel" /\ ProcKernel("host"))
          => /\ ret'.res # "Panic"
             /\ \A k \in 1..Len(loc'["host"].out) :
                   loc'["host"].out[k]
                       = Convolution(loc["host"].st.coefficient, loc["host"].input, k)]_vars

RECURSIVE DirectForm(_, _, _, _)
\* The k-th sample (from 1) of the direct-form difference equation with
\* feedback a and feedforward b on the block x, everything before the block
\* being zero.
DirectForm(a, b, x, k) ==
    RSub(Convolution(b, x, k),
         RSum([j \in 1..(Len(a) - 1) |->
                 IF k - j >= 1 THEN RMul(a[j + 1], DirectForm(a, b, x, k - j)) ELSE R(0)]))

\* C16: after a successful Iir.init every output sample satisfies
\* y[k] = sum_i b[i]*x[k-i] - sum_{j>=1} a[j]*y[k-j]; stated for the first
\* block received since the init: every sample process computes equals the
\* difference equation.
C16_IirDifferenceEquation ==
    [][(/\ kind = "Iir" /\ loc["host"].ps0 = "Initial" /\ n_recv = 1
        /\ pc["host"] = "p_kernel" /\ ProcKernel("host"))
          => \A k \in 1..Len(loc'["host"].out) :
                loc'["host"].out[k]
                    = DirectForm(loc["host"].st.a_coefficient,
                                 loc["host"].st.b_coefficient, loc["host"].input, k)]_vars

\* C17: when every a[k] with k >= 1 is zero, an Iir that init accepted
\* gives the convolution of its input with b; stated for the first block
\* received since the init.
C17_IirDegeneratesToFir ==
    [][(/\ kind = "Iir" /\ loc["host"].ps0 = "Initial" /\ n_recv = 1
        /\ pc["host"] = "p_kernel"
        /\ \A j \in 2..Len(loc["host"].st.a_coefficient) :
              loc["host"].st.a_coefficient[j] = R(0)
        /\ ProcKernel("host"))
          => /\ ret'.res # "Panic"
             /\ \A k \in 1..Len(loc'["host"].out) :
                   loc'["host"].out[k]
                       = Convolution(loc["host"].st.b_coefficient, loc["host"].input, k)]_vars

\* The value of rank r (from 1) among the samples of the window w.
RankedValue(w, r) ==
    CHOOSE v \in {w[i] : i \in 1..Len(w)} :
        /\ Cardinality({i \in 1..Len(w) : RLess(w[i], v)}) < r
        /\ r <= Cardinality({i \in 1..Len(w) : ~RLess(v, w[i])})

\* The median of a window that is not empty.
MedianOf(w) ==
    LET n == Len(w)
    IN  IF n % 2 = 1 THEN RankedValue(w, (n + 1) \div 2)
        ELSE RDiv(RAdd(RankedValue(w, n \div 2), RankedValue(w, n \div 2 + 1)), R(2))

\* The last min(k, order) samples of the block x up to its k-th sample (from 1).
LastSamples(x, k, order) == SubSeq(x, k - (IF k < order THEN k ELSE order) + 1, k)

\* C18: MedianFilter with order >= 1: process computes a whole block, whose
\* k-th output is the median of the last min(k+1, order) samples of that block
\* (the middle of the sorted window if its size is odd, the mean of the two
\* middles if even); with order = 1 the output block is the input block.
C18_MedianOfWindow ==
    [][(/\ kind = "MedianFilter" /\ pc["host"] = "p_kernel"
        /\ loc["host"].st.order >= 1 /\ ProcKernel("host"))
          => /\ ret'.res # "Panic"
             /\ Len(loc'["host"].out) = Len(loc["host"].input)
             /\ \A k \in 1..Len(loc["host"].input) :
                   loc'["host"].out[k]
                       = MedianOf(LastSamples(loc["host"].input, k, loc["host"].st.order))
             /\ loc["host"].st.order = 1 => loc'["host"].out = loc["host"].input]_vars

\* An order 2 filter has computed a block through windows of one and of two samples.
C18_Witness ==
    /\ kind = "MedianFilter" /\ pc["host"] = "p_send"
    /\ loc["host"].st.order = 2
    /\ loc["host"].input = V(<<3, 1, 2>>)
    /\ loc["host"].out = <<R(3), R(2), RDiv(R(3), R(2))>>

\* The block of the median despike scenario.
Alternating == V(<<1, 100, 1, 100, 1>>)

\* C19: MedianFilter with order = 3 removes the spikes of a block that
\* alternates baseline and spike from the first sample on: [1,100,1,100,1]
\* gives the baseline at every position, [1,1,1,1,1].
C19_DespikeAllBaseline ==
    [][(/\ kind = "MedianFilter" /\ pc["host"] = "p_kernel"
        /\ loc["host"].st.order = 3 /\ loc["host"].input = Alternating
        /\ ProcKernel("host"))
          => loc'["host"].out = V(<<1, 1, 1, 1, 1>>)]_vars

\* C19, amended: MedianFilter with order = 3 gives the medians of the
\* windows [1], [1,100], [1,100,1], [100,1,100], [1,100,1] of the block
\* [1,100,1,100,1], which are [1, 50.5, 1, 100, 1]: the spike stays
\* wherever the window holds two spikes, and is halved while the window
\* holds two samples.
C19_DespikeTrailingMedian ==
    [][(/\ kind = "MedianFilter" /\ pc["host"] = "p_kernel"
        /\ loc["host"].st.order = 3 /\ loc["host"].input = Alternating
        /\ ProcKernel("host"))
          => loc'["host"].out = <<R(1), RDiv(R(101), R(2)), R(1), R(100), R(1)>>]_vars

\* The order 3 filter has computed the alternating block.
C19_Witness ==
    /\ kind = "MedianFilter" /\ pc["host"] = "p_send"
    /\ loc["host"].st.order = 3
    /\ loc["host"].input = Alternating
    /\ Len(loc["host"].out) = 5

\* The mean of the samples of the block x within h places of its k-th sample (from 1).
CenteredAverage(x, k, h) ==
    LET lo == IF k - h < 1 THEN 1 ELSE k - h
        hi == IF k + h > Len(x) THEN Len(x) ELSE k + h
    IN  RDiv(RSum(SubSeq(x, lo, hi)), R(hi - lo + 1))

\* C20: MovingAverage computes the centered moving average with half-window
\* h = order/2 and a window that shrinks at both edges: process computes a
\* whole block, whose k-th output is the mean of the samples of that block
\* from max(0, k-h) to min(N-1, k+h); order = 2 on [1,2,3,4,5] gives
\* [1.5, 2, 3, 4, 4.5].  Stated for a block that init has accepted.
C20_CenteredAverage ==
    [][(/\ kind = "MovingAverage" /\ loc["host"].ps0 = "Initial"
        /\ pc["host"] = "p_kernel" /\ ProcKernel("host"))
          => /\ ret'.res # "Panic"
             /\ Len(loc'["host"].out) = Len(loc["host"].input)
             /\ \A k \in 1..Len(loc["host"].input) :
                   loc'["host"].out[k]
                       = CenteredAverage(loc["host"].input, k, loc["host"].st.order \div 2)]_vars

\* C21: MovingAverage with order = 0 is the identity: process computes every
\* block that is not empty, and the output block is the input block.
C21_OrderZeroIdentity ==
    [][(/\ kind = "MovingAverage" /\ loc["host"].ps0 = "Initial"
        /\ pc["host"] = "p_kernel"
        /\ loc["host"].st.order = 0 /\ loc["host"].input # <<>>
        /\ ProcKernel("host"))
          => /\ ret'.res # "Panic"
             /\ loc'["host"].out = loc["host"].input]_vars

\* C22: MovingAverage with order >= N, N the length of the input block,
\* gives the cumulative mean prefix: process computes the block and
\* output[k] = (x[0] + ... + x[k]) / (k + 1) for every k.
C22_CumulativeMean ==
    [][(/\ kind = "MovingAverage" /\ loc["host"].ps0 = "Initial"
        /\ pc["host"] = "p_kernel"
        /\ loc["host"].input # <<>> /\ loc["host"].st.order >= Len(loc["host"].input)
        /\ ProcKernel("host"))
          => /\ ret'.res # "Panic"
             /\ Len(loc'["host"].out) = Len(loc["host"].input)
             /\ \A k \in 1..Len(loc["host"].input) :
                   loc'["host"].out[k] = RDiv(RSum(SubSeq(loc["host"].input, 1, k)), R(k))]_vars

(***************************************************************************)
(* The state-space engine used by itself: it is constructed once, by new,  *)
(* by from_tf or by from_zpk, and then stepped with update.  The inputs    *)
(* given so far are kept in loc["host"].input and the outputs returned so  *)
(* far in output_port.                                                     *)
(***************************************************************************)
MaxCoef == 2

MaxSteps == 4

\* The arguments the engine is constructed with, per constructor.
EngineConfigs(k) ==
    CASE k = "Ss" ->
            {[A |-> MIdentity(1), B |-> MIdentity(1), C |-> MIdentity(1),
              D |-> MZero(1, 1), x0 |-> MZero(1, 1)],
             [A |-> MColumn(V(<<2>>)), B |-> MIdentity(1), C |-> MIdentity(1),
              D |-> MIdentity(1), x0 |-> MIdentity(1)]}
      [] k = "Tf" ->
            {[numerator |-> V(<<1>>), denominator |-> V(<<1, -a>>), x0 |-> V(<<0>>)] :
                a \in (-MaxCoef)..MaxCoef}
      [] k = "Zpk" ->
            {[zeros |-> <<>>, poles |-> V(<<p>>), gain |-> R(g), x0 |-> V(<<0>>)] :
                p \in (-MaxCoef)..MaxCoef, g \in 1..(MaxCoef + 1)}

\* The input vectors update is called with.
EngineInputs == {V(<<0>>), V(<<1>>)}

\* The constructor call of each kind, with the arguments as they are.
EngineOf(k, st) ==
    CASE k = "Ss" ->
            [panic |-> FALSE, ss |-> StateSpace_new(st.A, st.B, st.C, st.D, st.x0)]
      [] k = "Tf" -> from_tf(st.numerator, st.denominator, st.x0)
      [] k = "Zpk" -> from_zpk(st.zeros, st.poles, st.gain, st.x0)

InitEngine == Init /\ kind \in Lti

EngineConstruct(cfg) ==
    /\ ~initialized
    /\ ~EngineOf(kind, cfg).panic
    /\ statics' = cfg
    /\ initialized' = TRUE
    /\ model' = EngineOf(kind, cfg).ss
    /\ ret' = NoRet
    /\ UNCHANGED <<kind, proc_state, lock, poisoned, state, fft_core, inputs, in_closed,
                   output_port, out_closed, pc, loc, n_recv, out_src>>

EngineUpdate(u) ==
    /\ initialized
    /\ Len(output_port) < MaxSteps
    /\ LET r == update(model, MColumn(u))
       IN  /\ ~r.panic
           /\ model' = r.ss
           /\ output_port' = Append(output_port, MFirstColumn(r.y))
    /\ loc' = [loc EXCEPT !["host"].input = Append(@, u)]
    /\ ret' = NoRet
    /\ UNCHANGED <<kind, statics, initialized, proc_state, lock, poisoned, state, fft_core,
                   inputs, in_closed, out_closed, pc, n_recv, out_src>>

NextEngine ==
    \/ \E cfg \in EngineConfigs(kind) : EngineConstruct(cfg)
    \/ \E u \in EngineInputs : EngineUpdate(u)

SpecEngine == InitEngine /\ [][NextEngine]_vars

\* C23: the engine emits at step k the output y_k = C*x_k + D*u_k computed
\* from the state x_k it held before that step's update, so that the
\* integrator A = B = C = [[1]], D = [[0]], x0 = [[0]] fed u = [1] three
\* times gives [0], [1], [2].
C23_OutputFromStateBefore ==
    [][\A u \in EngineInputs :
          (kind = "Ss" /\ EngineUpdate(u))
              => output_port'[Len(output_port')]
                    = MFirstColumn(MAdd(MMul(model.C, model.x), MMul(model.D, MColumn(u))))]_vars

RECURSIVE RPow(_, _)
\* a to the power k, a^0 being 1.
RPow(a, k) == IF k = 0 THEN R(1) ELSE RMul(a, RPow(a, k - 1))

\* The inputs given so far, all of which are v.
DrivenBy(v) == \A i \in 1..Len(loc["host"].input) : loc["host"].input[i] = v

\* The inputs given so far are the unit impulse: one, then zeros.
DrivenByImpulse ==
    \A i \in 1..Len(loc["host"].input) :
        loc["host"].input[i] = IF i = 1 THEN V(<<1>>) ELSE V(<<0>>)

\* C24: the engine from_tf builds from num = [1], den = [1, -a], x0 = [0],
\* driven by the unit step, returns y[k] = a^0 + ... + a^k at its k-th
\* update (k from 0), for every integer a in -MaxCoef..MaxCoef.
C24_TfStepResponse ==
    (kind = "Tf" /\ initialized /\ DrivenBy(V(<<1>>)))
        => \A k \in 1..Len(output_port) :
              output_port[k]
                  = <<RSum([j \in 1..k |-> RPow(RNeg(statics.denominator[2]), j - 1)])>>

MaxMeasurements == 3

ObserverKinds == {"AlphaBetaGamma", "KalmanFilter"}

\* The statics the host assigns to an observer.  For the Kalman filter:
\* A = H = P0 = I with B = Q = R = 0 in one and in two dimensions, a filter
\* with noise, and statics with one matrix or vector of the wrong shape.
ObserverConfigs(k) ==
    LET Gains == {<<0, 0, 0>>, <<2, 0, 0>>, <<1, 2, 0>>, <<1, 1, 2>>, <<2, 2, 2>>}
        KF(A, B, H, Q, R0, P0, x0) ==
            [A |-> A, B |-> B, H |-> H, Q |-> Q, R |-> R0, P0 |-> P0, initial_state |-> x0]
    IN  CASE k = "AlphaBetaGamma" ->
                {[alpha |-> RDiv(R(g[1]), R(2)), beta |-> RDiv(R(g[2]), R(2)),
                  gamma |-> RDiv(R(g[3]), R(2))] : g \in Gains}
          [] OTHER ->
                {KF(MIdentity(1), MZero(1, 1), MIdentity(1), MZero(1, 1), MZero(1, 1),
                    MIdentity(1), V(<<0>>)),
                 KF(MIdentity(1), MIdentity(1), MIdentity(1), MIdentity(1), MIdentity(1),
                    MIdentity(1), V(<<1>>)),
                 KF(MIdentity(2), MZero(2, 2), MIdentity(2), MZero(2, 2), MZero(2, 2),
                    MIdentity(2), V(<<0, 0>>)),
                 KF(MZero(1, 2), MZero(1, 1), MIdentity(1), MZero(1, 1), MZero(1, 1),
                    MIdentity(1), V(<<0>>)),
                 KF(MIdentity(1), MZero(2, 1), MIdentity(1), MZero(1, 1), MZero(1, 1),
                    MIdentity(1), V(<<0>>)),
                 KF(MIdentity(1), MZero(1, 1), MZero(1, 2), MZero(1, 1), MZero(1, 1),
                    MIdentity(1), V(<<0>>)),
                 KF(MIdentity(1), MZero(1, 1), MIdentity(1), MZero(1, 2), MZero(1, 1),
                    MIdentity(1), V(<<0>>)),
                 KF(MIdentity(1), MZero(1, 1), MIdentity(1), MZero(2, 2), MZero(1, 1),
                    MIdentity(1), V(<<0>>)),
                 KF(MIdentity(1), MZero(1, 1), MIdentity(1), MZero(1, 1), MZero(1, 2),
                    MIdentity(1), V(<<0>>)),
                 KF(MIdentity(1), MZero(1, 1), MIdentity(1), MZero(1, 1), MZero(2, 2),
                    MIdentity(1), V(<<0>>)),
                 KF(MIdentity(1), MZero(1, 1), MIdentity(1), MZero(1, 1), MZero(1, 1),
                    MZero(1, 2), V(<<0>>)),
                 KF(MIdentity(1), MZero(1, 1), MIdentity(1), MZero(1, 1), MZero(1, 1),
                    MIdentity(2), V(<<0>>)),
                 KF(MIdentity(1), MZero(1, 1), MIdentity(1), MZero(1, 1), MZero(1, 1),
                    MIdentity(1), V(<<0, 0>>))}

\* The measurements the upstream sends to an observer.
Measurements(k) ==
    IF k = "AlphaBetaGamma" THEN {R(5), R(7)} ELSE {V(<<5>>), V(<<7>>), V(<<5, 7>>)}

\* The upstream sends one more measurement.
Measure(v) ==
    /\ n_recv + Pending < MaxMeasurements
    /\ Len(inputs["input"]) < QueueCap
    /\ inputs' = [inputs EXCEPT !["input"] = Append(@, v)]
    /\ ret' = NoRet
    /\ UNCHANGED <<kind, statics, initialized, proc_state, lock, poisoned, state, model,
                   fft_core, in_closed, output_port, out_closed, pc, loc, n_recv, out_src>>

InitObserver == Init /\ kind \in ObserverKinds

NextObserver ==
    \/ \E cfg \in ObserverConfigs(kind) : SetStatics(cfg)
    \/ \E cfg \in ObserverConfigs(kind) : Reconfigure(cfg)
    \/ InitCall("host")
    \/ InitWrite("host")
    \/ InitSet("host")
    \/ Stop("host")
    \/ ProcessCall("host")
    \/ ProcRecv("host")
    \/ ProcLock("host")
    \/ ProcKernel("host")
    \/ ProcWrite("host")
    \/ ProcSend("host")
    \/ \E v \in Measurements(kind) : Measure(v)

SpecObserver == InitObserver /\ [][NextObserver]_vars

\* The tracker's state after a measurement z taken dt seconds after the last
\* one: the position is predicted, and the three components are corrected
\* by the gains times the prediction error.
Tracked(st, s, z, dt) ==
    LET p == RAdd(RAdd(s[1], RMul(s[2], dt)), RDiv(RMul(RMul(s[3], dt), dt), R(2)))
        error == RSub(z, p)
    IN  <<RAdd(p, RMul(st.alpha, error)),
          RAdd(s[2], RMul(st.beta, error)),
          RAdd(s[3], RMul(st.gamma, error))>>

\* C26: the first process call of an AlphaBetaGamma sets the position to
\* the input, leaves velocity and acceleration alone, sets the init flag
\* and outputs the input; every later call, dt after the last one, predicts
\* p + v*dt + a*dt*dt/2, corrects position, velocity and acceleration by
\* alpha, beta and gamma times (input - prediction) and outputs the
\* position.  With all gains zero the second output is the first one
\* again (5 then 7 give 5 then 5), whatever dt.
C26_Tracker ==
    [][kind = "AlphaBetaGamma"
          => LET l == loc["host"]
                 l1 == loc'["host"]
             IN  /\ (pc["host"] = "p_kernel" /\ ProcKernel("host"))
                       => /\ ret'.res # "Panic"
                          /\ l1.out = l1.slots.state[1]
                          /\ IF l.slots.init
                             THEN /\ RSub(l1.slots.last_update, l.slots.last_update)
                                        \in DeltaTimes
                                  /\ l1.slots.state
                                        = Tracked(l.st, l.slots.state, l.input,
                                                  RSub(l1.slots.last_update,
                                                       l.slots.last_update))
                             ELSE l1.slots.state
                                      = <<l.input, l.slots.state[2], l.slots.state[3]>>
                          /\ (n_recv = 2 /\ l.st.alpha = R(0) /\ l.st.beta = R(0)
                                /\ l.st.gamma = R(0) /\ output_port # <<>>)
                                => l1.out = output_port[1]
                 /\ (pc["host"] = "p_write" /\ ProcWrite("host"))
                       => state'.init /\ state'.state = l.slots.state
                 /\ (pc["host"] = "p_send" /\ ProcSend("host"))
                       => output_port' = Append(output_port, l.out)]_vars

\* The third measurement has been tracked with a velocity and an
\* acceleration that the second one had made nonzero.
C26_Witness ==
    /\ kind = "AlphaBetaGamma" /\ pc["host"] = "p_send" /\ n_recv = 3
    /\ Len(output_port) = 2
    /\ state.state[2] # R(0) /\ state.state[3] # R(0)
    /\ loc["host"].out \notin {R(5), R(7)}

\* C27: KalmanFilter.init succeeds only if A is n x n, B has n rows, H has
\* n columns, Q is n x n, R is square with as many rows as H, P0 is n x n
\* and initial_state has length n; otherwise it returns InvalidStatics and
\* leaves the lifecycle state and the slots as they were; an init that
\* returns Ok has set state to initial_state and P to P0.
C27_KalmanInit ==
    [][(kind = "KalmanFilter" /\ proc_state # "Running")
          => /\ InitCall("host")
                  => /\ (ret'.res = "InvalidStatics")
                          <=> LET n == statics.A.rows
                              IN  ~(/\ statics.A.cols = n
                                    /\ statics.B.rows = n
                                    /\ statics.H.cols = n
                                    /\ statics.Q.rows = n /\ statics.Q.cols = n
                                    /\ statics.R.rows = statics.R.cols
                                    /\ statics.R.rows = statics.H.rows
                                    /\ statics.P0.rows = n /\ statics.P0.cols = n
                                    /\ Len(statics.initial_state) = n)
                     /\ ret'.res # "none" => (proc_state' = proc_state /\ state' = state)
             /\ (pc["host"] = "i_set" /\ InitSet("host"))
                  => /\ ret'.op = "init" /\ ret'.res = "Ok"
                     /\ state'.state = loc["host"].st.initial_state
                     /\ state'.P = loc["host"].st.P0]_vars

\* An init after stop has returned Ok and put initial_state and P0 back into
\* the slots that process had written.
C27_Witness ==
    /\ kind = "KalmanFilter"
    /\ ret.op = "init" /\ ret.res = "Ok" /\ ret.ps0 = "Stopped"
    /\ output_port # <<>>
    /\ state.state = statics.initial_state /\ state.P = statics.P0

\* C28: a KalmanFilter with A = I, B = 0, H = I, Q = 0, P0 = I and R = 0:
\* after every process step, the first and the later ones, the state slot
\* and the output are the measurement just received.
C28_KalmanFollowsMeasurement ==
    [][(/\ kind = "KalmanFilter" /\ pc["host"] = "p_kernel"
        /\ loc["host"].ps0 = "Initial"
        /\ LET n == Len(loc["host"].input)
               st == loc["host"].st
           IN  /\ st.A = MIdentity(n) /\ st.B = MZero(n, n) /\ st.H = MIdentity(n)
               /\ st.Q = MZero(n, n) /\ st.R = MZero(n, n) /\ st.P0 = MIdentity(n)
        /\ ProcKernel("host"))
          => /\ ret'.res # "Panic"
             /\ loc'["host"].slots.state = loc["host"].input
             /\ loc'["host"].out = loc["host"].input]_vars

(***************************************************************************)
(* The plan on its own: FftCore::new and the transforms called directly.   *)
(* loc["host"].input holds the signal transformed, output_port its         *)
(* transform and then the inverse transform of that.                       *)
(***************************************************************************)
\* The signals of the plan's length, for the plans with exact weights.
FftSignals(size) ==
    LET FftSamples == {Cx(R(0), R(0)), Cx(R(1), R(0)), Cx(R(-1), R(0)), Cx(R(0), R(1))}
    IN  IF size \in FftSizes THEN [1..size -> FftSamples] ELSE {}

InitFft == Init /\ kind = "Fft"

FftPlan(inverse, size) ==
    /\ statics' = [fft_size |-> size, inverse |-> inverse, complex_input |-> TRUE]
    /\ initialized' = TRUE
    /\ fft_core' = [some |-> TRUE, core |-> FftCore_new(inverse, size)]
    /\ output_port' = <<>>
    /\ loc' = [loc EXCEPT !["host"].input = <<>>]
    /\ ret' = NoRet
    /\ UNCHANGED <<kind, proc_state, lock, poisoned, state, model, inputs, in_closed,
                   out_closed, pc, n_recv, out_src>>

FftTransform(x) ==
    /\ fft_core.some
    /\ output_port = <<>>
    /\ LET r == fft_complex(fft_core.core, x)
       IN  /\ output_port' = IF r.panic THEN output_port ELSE <<r.out>>
           /\ ret' = [t |-> "host", op |-> "fft_complex",
                      res |-> IF r.panic THEN "Panic" ELSE "Ok", ps0 |-> proc_state]
    /\ loc' = [loc EXCEPT !["host"].input = x]
    /\ UNCHANGED <<kind, statics, initialized, proc_state, lock, poisoned, state, model,
                   fft_core, inputs, in_closed, out_closed, pc, n_recv, out_src>>

\* The transform of the opposite direction and the same size, of the transform.
FftTransformBack ==
    /\ fft_core.some
    /\ Len(output_port) = 1
    /\ LET r == fft_complex(FftCore_new(~statics.inverse, statics.fft_size),
                            output_port[1])
       IN  /\ output_port' = IF r.panic THEN output_port ELSE Append(output_port, r.out)
           /\ ret' = [t |-> "host", op |-> "fft_complex",
                      res |-> IF r.panic THEN "Panic" ELSE "Ok", ps0 |-> proc_state]
    /\ UNCHANGED <<kind, statics, initialized, proc_state, lock, poisoned, state, model,
                   fft_core, inputs, in_closed, out_closed, pc, loc, n_recv, out_src>>

NextFft ==
    \/ \E inverse \in BOOLEAN, size \in FftSizes : FftPlan(inverse, size)
    \/ \E x \in FftSignals(statics.fft_size) : FftTransform(x)
    \/ FftTransformBack

SpecFft == InitFft /\ [][NextFft]_vars

UnitImpulse(size) == [i \in 1..size |-> IF i = 1 THEN Cx(R(1), R(0)) ELSE Cx(R(0), R(0))]

Ones(size) == [i \in 1..size |-> Cx(R(1), R(0))]

CScaled(x, n) == [i \in 1..Len(x) |-> CMul(Cx(R(n), R(0)), x[i])]

\* C29: for a plan of size N, the forward transform followed by the inverse
\* transform gives the input scaled by N, the forward transform of the unit
\* impulse is N ones, and the inverse transform of N ones is N times the unit
\* impulse.
C29_FftRoundTrip ==
    (kind = "Fft" /\ fft_core.some /\ output_port # <<>> /\ pc["host"] = "idle"
        /\ n_recv = 0)
        => LET size == fft_core.core.size
               x == loc["host"].input
           IN  /\ ret.res # "Panic"
               /\ (~statics.inverse /\ Len(output_port) = 2)
                     => output_port[2] = CScaled(x, size)
               /\ (~statics.inverse /\ x = UnitImpulse(size))
                     => output_port[1] = Ones(size)
               /\ (statics.inverse /\ x = Ones(size))
                     => output_port[1] = CScaled(UnitImpulse(size), size)

(***************************************************************************)
(* The module interface: each library's factory get_processor_modules.     *)
(* The host calls it for the blocks of its graph; the block variables      *)
(* describe the block constructed last (kind "none": none yet),            *)
(* loc["host"] holds the arguments of the last call (input), the number    *)
(* of calls (src) and the number of blocks constructed (k), and ret the    *)
(* handle returned.                                                        *)
(***************************************************************************)
MaxCalls == 2

Modules == {"filters", "lti", "transform", "observer"}

\* What the bytes of proc_block may be: the block names, other strings, and
\* bytes that are not UTF-8.
TypeNames == Kinds \cup {"Ekf", "Ukf", "FftProcessor", "Gain", "", "not UTF-8"}

BlockNames == {"b1", "b2"}

\* processor_engine::ffi::get_error_return: the handle that carries a code.
get_error_return(code) ==
    [t |-> "host", op |-> "get_processor_modules", res |-> "error_return", ps0 |-> "none",
     code |-> code]

\* processor_engine::ffi::export_stream_processor: the handle of a block.
export_stream_processor(k) ==
    [t |-> "host", op |-> "get_processor_modules", res |-> "block", ps0 |-> "none",
     code |-> 0, kind |-> k]

\* The factory of the filters library, whose lib.rs is not in src: the four
\* filters by name.
filters_get_processor_modules(proc_block_str) ==
    IF proc_block_str \in {"Fir", "Iir", "MedianFilter", "MovingAverage"}
    THEN export_stream_processor(proc_block_str)
    ELSE get_error_return(1)

\* The match of each library on proc_block_str.  The arm of transform
\* names fft::FftProcessor, the block fft.rs defines as Fft; observer
\* declares no module kalman_filter and has no arm for it.
get_processor_modules(module, proc_block_str) ==
    CASE module = "lti" ->
            IF proc_block_str \in {"Zpk", "Ss", "Tf"}
            THEN export_stream_processor(proc_block_str)
            ELSE get_error_return(1)
      [] module = "transform" ->
            IF proc_block_str = "Fft"
            THEN export_stream_processor("Fft")
            ELSE get_error_return(1)
      [] module = "observer" ->
            IF proc_block_str \in {"AlphaBetaGamma", "Ekf", "Ukf"}
            THEN export_stream_processor(proc_block_str)
            ELSE get_error_return(1)
      [] module = "filters" -> filters_get_processor_modules(proc_block_str)

InitModules ==
    /\ kind = "none"
    /\ statics = <<>>
    /\ initialized = FALSE
    /\ proc_state = "none"
    /\ lock = "free"
    /\ poisoned = FALSE
    /\ state = <<>>
    /\ model = DefaultModel
    /\ fft_core = NoCore
    /\ inputs = <<>>
    /\ in_closed = FALSE
    /\ output_port = <<>>
    /\ out_closed = FALSE
    /\ pc = [t \in Threads |-> "idle"]
    /\ loc = [t \in Threads |-> NoLoc]
    /\ ret = NoRet
    /\ n_recv = 0
    /\ out_src = <<>>

\* One call of the factory of a library.  from_utf8(..).unwrap() panics on
\* bytes that are not UTF-8; a block is constructed by its new(), which
\* leaves it in state Null with its defaults.
GetProcessorModules(module, proc_block, block_name) ==
    /\ loc["host"].src < MaxCalls
    /\ LET h == IF proc_block = "not UTF-8"
                THEN [t |-> "host", op |-> "get_processor_modules", res |-> "Panic",
                      ps0 |-> "none"]
                ELSE get_processor_modules(module, proc_block)
           made == h.res = "block"
       IN  /\ ret' = h
           /\ loc' = [loc EXCEPT !["host"].input = <<module, proc_block, block_name>>,
                                 !["host"].src = @ + 1,
                                 !["host"].k = IF made THEN @ + 1 ELSE @]
           /\ IF made
              THEN /\ kind' = h.kind
                   /\ statics' = IF h.kind \in Kinds THEN DefaultStatics(h.kind) ELSE <<>>
                   /\ state' = IF h.kind \in Kinds THEN DefaultState(h.kind) ELSE <<>>
                   /\ inputs' = [p \in InPorts(h.kind) |-> <<>>]
                   /\ proc_state' = "Null"
              ELSE UNCHANGED <<kind, statics, state, inputs, proc_state>>
    /\ UNCHANGED <<initialized, lock, poisoned, model, fft_core, in_closed, output_port,
                   out_closed, pc, n_recv, out_src>>

NextModules ==
    \E module \in Modules, proc_block \in TypeNames, block_name \in BlockNames :
        GetProcessorModules(module, proc_block, block_name)

SpecModules == InitModules /\ [][NextModules]_vars

\* The block types each library holds (the blocks of its source files), and
\* the names it keeps for blocks to come.
BlocksOf(module) ==
    CASE module = "filters" -> {"Fir", "Iir", "MedianFilter", "MovingAverage"}
      [] module = "lti" -> {"Tf", "Zpk", "Ss"}
      [] module = "transform" -> {"Fft"}
      [] module = "observer" -> {"AlphaBetaGamma", "KalmanFilter"}

ReservedOf(module) == IF module = "observer" THEN {"Ekf", "Ukf"} ELSE {}

C31_Restart ==
    [][(/\ ret.t = "host" /\ ret.op = "init" /\ ret.res = "Ok" /\ ret.ps0 = "Stopped"
        /\ RunCall("host"))
          => ret'.res # "InvalidStateTransition"]_vars

(***************************************************************************)
(* The engines and the plan under statics and inputs of all shapes: one    *)
(* thread, the statics assigned once, inputs shorter and longer than the   *)
(* block expects.                                                          *)
(***************************************************************************)
\* The statics assigned: accepted and rejected by init, of state sizes 0 to 2.
ShapeConfigs(k) ==
    CASE k = "Tf" ->
            {[numerator |-> V(num), denominator |-> V(den), x0 |-> V(x0)] :
                num \in {<<>>, <<1>>, <<3, 2>>, <<1, 2, 3>>},
                den \in {<<>>, <<1>>, <<0, 1>>, <<2, -1>>, <<1, 0, -1>>},
                x0 \in {<<0>>, <<0, 0>>}}
      [] k = "Zpk" ->
            {[zeros |-> V(z), poles |-> V(p), gain |-> R(3), x0 |-> V(x0)] :
                z \in {<<>>, <<1>>, <<1, 1>>},
                p \in {<<>>, <<2>>, <<1, 2>>},
                x0 \in {<<0>>, <<0, 0>>}}
      [] k = "Ss" ->
            {[A |-> MZero(a[1], a[2]), B |-> MZero(b[1], b[2]), C |-> MZero(c[1], c[2]),
              D |-> MZero(d[1], d[2]), x0 |-> MZero(x[1], x[2])] :
                a \in {<<1, 1>>, <<2, 2>>, <<1, 2>>},
                b \in {<<1, 1>>, <<2, 1>>, <<2, 2>>},
                c \in {<<1, 1>>, <<1, 2>>},
                d \in {<<1, 1>>, <<1, 2>>, <<2, 1>>},
                x \in {<<1, 1>>, <<2, 1>>, <<1, 2>>}}
      [] k = "Fft" ->
            {[fft_size |-> size, inverse |-> FALSE, complex_input |-> cplx] :
                size \in FftSizes, cplx \in BOOLEAN}

\* The vectors the upstream sends, of lengths 1 to 5.
ShapeInputs(k, port) ==
    IF port = "complex_signal"
    THEN {[i \in 1..L |-> Cx(R(1), R(i))] : L \in {1, 2, 3, 5}}
    ELSE {[i \in 1..L |-> R(i)] : L \in (IF k = "Fft" THEN {1, 2, 3, 5} ELSE {1, 2})}

InitShapes == Init /\ kind \in (Lti \cup {"Fft"})

NextShapes ==
    \/ \E cfg \in ShapeConfigs(kind) : SetStatics(cfg)
    \/ InitCall("host")
    \/ InitCheck("host")
    \/ InitWrite("host")
    \/ InitSet("host")
    \/ Stop("host")
    \/ ProcessCall("host")
    \/ ProcRecv("host")
    \/ ProcLock("host")
    \/ ProcKernel("host")
    \/ ProcSend("host")
    \/ \E port \in InPorts(kind) : \E v \in ShapeInputs(kind, port) : Feed(port, v)

SpecShapes == InitShapes /\ [][NextShapes]_vars

\* The controllable canonical form of num/den, n = Len(den) - 1: ones on the
\* superdiagonal of A and -den[k+1]/den[0] in its last row, num[k]/den[0] in
\* B, C = [0,...,0,1], and D = num[0]/den[0] when the lengths agree.
CanonicalForm(num, den) ==
    LET n == Len(den) - 1
    IN  [A |-> [rows |-> n, cols |-> n,
                d |-> [i \in 1..n |-> [j \in 1..n |->
                        IF i = n THEN RNeg(RDiv(den[j + 1], den[1]))
                        ELSE IF j = i + 1 THEN R(1) ELSE R(0)]]],
         B |-> [rows |-> n, cols |-> 1,
                d |-> [i \in 1..n |->
                        <<IF i + 1 <= Len(num) THEN RDiv(num[i + 1], den[1]) ELSE R(0)>>]],
         C |-> [rows |-> 1, cols |-> n,
                d |-> <<[j \in 1..n |-> IF j = n THEN R(1) ELSE R(0)]>>],
         D |-> [rows |-> 1, cols |-> 1,
                d |-> <<<<IF Len(num) = Len(den) THEN RDiv(num[1], den[1]) ELSE R(0)>>>>]]

\* C32: for every numerator and denominator Tf.init accepts, from_tf
\* completes without an out-of-range matrix write and the engine is the
\* controllable canonical form of size Len(den) - 1.
C32_TfCanonicalForm ==
    [][(kind = "Tf" /\ pc["host"] = "i_write" /\ InitWrite("host"))
          => LET st == loc["host"].st
                 F == CanonicalForm(PadFront(st.numerator, Len(st.denominator)),
                                    st.denominator)
             IN  /\ ret'.res # "Panic"
                 /\ model'.A = F.A /\ model'.B = F.B /\ model'.C = F.C
                 /\ model'.D = F.D]_vars

\* The engine's dimensions agree: A is n x n, B n x m, C p x n, D p x m, x n x 1.
Consistent(ss) ==
    /\ ss.A.rows = ss.A.cols
    /\ ss.B.rows = ss.A.rows
    /\ ss.C.cols = ss.A.rows
    /\ ss.D.rows = ss.C.rows /\ ss.D.cols = ss.B.cols
    /\ ss.x.rows = ss.A.rows /\ ss.x.cols = 1

\* C33: after a successful init of Ss, Tf or Zpk the engine's dimensions are
\* consistent, x0 included, and an update of a consistent engine with an
\* input of length m meets no dimension mismatch and leaves it consistent.
C33_EngineConsistent ==
    [][/\ (kind \in Lti /\ InitWrite("host") /\ ret'.res # "Panic")
            => Consistent(model')
       /\ (kind \in Lti /\ pc["host"] = "p_kernel" /\ Consistent(model)
             /\ ProcKernel("host"))
            => (ret'.res # "Panic" /\ Consistent(model'))]_vars

\* C34: Fft.process emits a vector of exactly fft_size elements for every
\* fft_size and every input length, shorter inputs being zero-padded and
\* longer ones not making the output longer.
C34_FftOutputLength ==
    [][(kind = "Fft" /\ pc["host"] = "p_kernel" /\ fft_core.some /\ ProcKernel("host"))
          => /\ ret'.res # "Panic"
             /\ Len(loc'["host"].out) = fft_core.core.size]_vars

\* The block names of each library's descriptor MODULE (provides,
\* provides_lengths): lti and observer export a null list of length 0.  The
\* descriptor of filters is not in src: the four filters.
MODULE_provides(module) ==
    CASE module = "lti" -> {}
      [] module = "observer" -> {}
      [] module = "transform" -> {"Fft"}
      [] module = "filters" -> {"Fir", "Iir", "MedianFilter", "MovingAverage"}

\* C35: in each module the factory accepts exactly the names the descriptor
\* provides, and every block of the canonical table that one factory turns
\* down is constructed by the factory of another module.
C35_DescriptorAndFactory ==
    [][\A module \in Modules, proc_block \in TypeNames \ {"not UTF-8"},
          block_name \in BlockNames :
          GetProcessorModules(module, proc_block, block_name)
             => /\ (ret'.res = "block") <=> (proc_block \in MODULE_provides(module))
                /\ (proc_block \in Kinds /\ ret'.res # "block")
                     => \E other \in Modules :
                           get_processor_modules(other, proc_block).res = "block"]_vars

\* C36: for every order Fir.init or Iir.init accepts and every input block,
\* process reads no coefficient or history element out of range, computes no
\* negative index, removes from no empty history, and writes back history
\* slots of exactly `order` elements.
C36_HistoryInRange ==
    [][/\ (/\ kind \in {"Fir", "Iir"} /\ pc["host"] = "p_kernel"
           /\ loc["host"].ps0 = "Initial" /\ ProcKernel("host"))
            => ret'.res # "Panic"
       /\ (/\ kind \in {"Fir", "Iir"} /\ pc["host"] = "p_write"
           /\ loc["host"].ps0 = "Initial" /\ ProcWrite("host"))
            => \A h \in DOMAIN state' : Len(state'[h]) = loc["host"].st.order]_vars

\* C37: for every order, the default 0 included, and every non-empty input
\* block of length N, MedianFilter.process and MovingAverage.process complete
\* without fault: no median of an empty window, no division by a zero count
\* (no NaN in the output), no index outside the block, and an output block
\* of length N.
C37_WindowsInRange ==
    [][(/\ kind \in {"MedianFilter", "MovingAverage"} /\ pc["host"] = "p_kernel"
        /\ ProcKernel("host"))
          => /\ ret'.res # "Panic"
             /\ Len(loc'["host"].out) = Len(loc["host"].input)
             /\ \A k \in 1..Len(loc'["host"].out) : loc'["host"].out[k][2] # 0]_vars

(***************************************************************************)
(* The recursion of FftCore::fft_process, one call or return per step,     *)
(* without the values.  loc["host"].st is the plan (size, factorization),  *)
(* loc["host"].slots the stack of calls, innermost last: the size and      *)
(* index_factor of the call and the number i of chunks transformed.  The   *)
(* combination loop reads chunks[i][k % chunk_size] and                    *)
(* weights[k % chunk_size], both inside their vectors.                     *)
(***************************************************************************)
MaxPlan == 20

MaxDepth == 6

\* fft_complex on a plan of `size`: the outermost call fft_process(.., size, 0, 0, 1).
FftProcessCall(size) ==
    /\ pc["host"] = "idle"
    /\ pc' = [pc EXCEPT !["host"] = "fft_process"]
    /\ loc' = [loc EXCEPT !["host"] =
                 [NoLoc EXCEPT !.st = [size |-> size, factorization |-> factorize(size)],
                               !.slots = <<[size |-> size, index_factor |-> 0, i |-> 0]>>,
                               !.ps0 = proc_state]]
    /\ ret' = NoRet
    /\ UNCHANGED <<block_vars, n_recv, out_src>>

\* A recursion whose sub-problem is as large as the problem: what
\* FftProcessStep must not be.
step_without_dividing ==
    /\ pc["host"] = "fft_process"
    /\ LET stack == loc["host"].slots
           f == stack[Len(stack)]
           plan == loc["host"].st
       IN  IF ~InRange(plan.factorization, f.index_factor)
           THEN Return("host", "fft_process", loc["host"].ps0, "Panic")
           ELSE /\ Len(stack) < MaxDepth
                /\ loc' = [loc EXCEPT !["host"].slots =
                             Append(stack, [size |-> f.size,
                                            index_factor |-> f.index_factor + 1, i |-> 0])]
                /\ ret' = NoRet
                /\ UNCHANGED <<pc, lock, poisoned>>
    /\ UNCHANGED <<kind, statics, initialized, proc_state, state, model, fft_core, inputs,
                   in_closed, output_port, out_closed, n_recv, out_src>>

\* One step of the innermost call: it returns at once for the sizes 1 and 2;
\* else it reads factorization[index_factor], calls itself for the next of
\* its chunk_number chunks, and returns after the last.
FftProcessStep ==
    /\ pc["host"] = "fft_process"
    /\ LET stack == loc["host"].slots
           f == stack[Len(stack)]
           plan == loc["host"].st
           returns ==
              IF Len(stack) = 1
              THEN Return("host", "fft_process", loc["host"].ps0, "Ok")
              ELSE /\ loc' = [loc EXCEPT !["host"].slots = SubSeq(stack, 1, Len(stack) - 1)]
                   /\ ret' = NoRet
                   /\ UNCHANGED <<pc, lock, poisoned>>
       IN  IF f.size = 1 \/ f.size = 2 THEN returns
           ELSE IF ~InRange(plan.factorization, f.index_factor)
           THEN Return("host", "fft_process", loc["host"].ps0, "Panic")
           ELSE LET chunk_number == plan.factorization[f.index_factor + 1]
                    chunk_size == f.size \div chunk_number
                IN  IF f.i < chunk_number
                    THEN /\ Len(stack) < MaxDepth
                         /\ loc' = [loc EXCEPT !["host"].slots =
                                      Append([stack EXCEPT ![Len(stack)].i = @ + 1],
                                             [size |-> chunk_size,
                                              index_factor |-> f.index_factor + 1,
                                              i |-> 0])]
                         /\ ret' = NoRet
                         /\ UNCHANGED <<pc, lock, poisoned>>
                    ELSE returns
    /\ UNCHANGED <<kind, statics, initialized, proc_state, state, model, fft_core, inputs,
                   in_closed, output_port, out_closed, n_recv, out_src>>

NextRecursion ==
    \/ \E size \in 1..MaxPlan : FftProcessCall(size)
    \/ FftProcessStep

\* A call that can take a step takes it.
SpecRecursion == InitFft /\ [][NextRecursion]_vars /\ WF_vars(NextRecursion)

\* The calls in progress: every call but the outermost is of a smaller size
\* than its caller, and a call that reads the factorization (size above 2)
\* has its index_factor inside the list.
RecursionInRange ==
    pc["host"] = "fft_process"
        => LET stack == loc["host"].slots
           IN  /\ \A j \in 2..Len(stack) :
                     stack[j].size >= 1 /\ stack[j].size < stack[j - 1].size
               /\ \A j \in 1..Len(stack) :
                     stack[j].size > 2
                        => InRange(loc["host"].st.factorization, stack[j].index_factor)

\* C38: for every plan size N >= 1 with the factorization into primes, the
\* recursion of fft_process terminates, the size of the sub-problem
\* decreases strictly at every level, and factorization[index_factor] is
\* read only inside the list.
C38_RecursionTerminates ==
    /\ [](RecursionInRange /\ ret.res # "Panic")
    /\ (pc["host"] = "fft_process")
          ~> (ret.t = "host" /\ ret.op = "fft_process" /\ ret.res = "Ok")

\* C38, its case: the plan of size 12 = 2 * 2 * 3, three levels down, at a
\* sub-problem of size 1.
C38_Witness ==
    /\ pc["host"] = "fft_process"
    /\ loc["host"].st.size = 12
    /\ Len(loc["host"].slots) = 4
    /\ loc["host"].slots[4].size = 1 /\ loc["host"].slots[4].index_factor = 3

====
